---- MODULE Spec2Model ----
(***************************************************************************)
(* A model of the OpenKimi core: the TextProcessor (chunking and entropy   *)
(* classification), the RAGManager (summary store and retrieval), the      *)
(* KimiEngine compression loop and the FrameworkGenerator (multi-path      *)
(* reasoning).  Texts are sequences of characters; a word is a maximal run *)
(* of non-whitespace characters, as str.split() produces.                  *)
(***************************************************************************)
EXTENDS Integers, Sequences, FiniteSets, TLC

(***************************************************************************)
(* Bounds of the model.                                                    *)
(***************************************************************************)
\* longest word list handed to split_into_batches
MaxWords == 3
\* largest batch_size a TextProcessor is constructed with
MaxBatchSize == 3
\* largest explicit overlap_size a TextProcessor is constructed with
MaxOverlap == 2
\* chunks one split call may append before the model stops following it
MaxChunks == 5
\* longest text (in characters) handed to _recursive_rag_compress
MaxTextLen == 3
\* longest chunk list handed to classify_by_entropy
MaxClassify == 3
\* longest list of texts handed to batch_store
MaxBatchTexts == 2
\* largest top_k handed to retrieve
MaxTopK == 2
\* longest rag_context handed to generate_solution_mpr
MaxRagContext == 2
\* largest num_candidates handed to generate_solution_mpr
MaxCandidates == 2
\* longest candidate text handed to _majority_vote in three copies
MaxCandidateLen == 3
\* longest list of differing candidates handed to _majority_vote
MaxVotes == 3
\* longest conversation history
MaxHistory == 2
\* max_prompt_tokens of the engine
MaxPromptTokens == 2
\* longest drawn text (in characters) handed to calculate_word_entropy
MaxEntropyLen == 3
\* most messages in one chat completion request
MaxMessages == 2
\* latest clock reading of the API server that is followed
MaxTime == 600
\* longest conversation history handed to _get_recent_context
MaxContextHistory == 3
\* longest content of a message of that history
MaxContentLen == 2
\* largest max_tokens handed to _get_recent_context
MaxContextTokens == 20

(***************************************************************************)
(* Program constants.                                                      *)
(***************************************************************************)
\* TextProcessor.__init__ default overlap_size
DefaultOverlapSize == 50
\* KimiEngine's default processor batch_size
DefaultBatchSize == 512
\* RAGManager.__init__ default similarity_threshold, 0.7, as a fraction
SimilarityThresholdNum == 7
SimilarityThresholdDen == 10
\* KimiEngine.chat default top_k of the retrieval
DefaultTopK == 3
\* SessionManager.default_timeout, in seconds
DefaultTimeout == 3600
\* SessionManager.cleanup_interval, in seconds
CleanupInterval == 300

(***************************************************************************)
(* Generic helpers.                                                        *)
(***************************************************************************)
Min(a, b) == IF a < b THEN a ELSE b

Max(a, b) == IF a > b THEN a ELSE b

SetMax(S) == CHOOSE x \in S : \A y \in S : y <= x

Range(s) == {s[i] : i \in 1..Len(s)}

SeqsUpTo(S, n) == UNION {[1..k -> S] : k \in 0..n}

\* Python slice s[lo:hi] for 0 <= lo, with hi clipped to len(s)
Slice(s, lo, hi) == SubSeq(s, lo + 1, Min(hi, Len(s)))

(***************************************************************************)
(* Strings.                                                                *)
(***************************************************************************)
Whitespace == {" ", "\n"}

SentenceEnd == {".", "!", "?"}

\* sep.join(parts): the parts' characters with sep between consecutive parts
RECURSIVE Join(_, _)
Join(parts, sep) ==
    IF parts = <<>> THEN <<>>
    ELSE IF Len(parts) = 1 THEN parts[1]
    ELSE parts[1] \o sep \o Join(Tail(parts), sep)

\* text.split(): the maximal runs of non-whitespace characters, in order
RECURSIVE SplitFrom(_, _, _)
SplitFrom(text, cur, acc) ==
    IF text = <<>> THEN (IF cur = <<>> THEN acc ELSE Append(acc, cur))
    ELSE IF Head(text) \in Whitespace
         THEN SplitFrom(Tail(text), <<>>, IF cur = <<>> THEN acc ELSE Append(acc, cur))
         ELSE SplitFrom(Tail(text), Append(cur, Head(text)), acc)

StrSplit(text) == SplitFrom(text, <<>>, <<>>)

\* word.endswith(('.', '!', '?'))
EndsSentence(word) == word # <<>> /\ word[Len(word)] \in SentenceEnd

(***************************************************************************)
(* State.                                                                  *)
(***************************************************************************)
VARIABLES
    scenario,         \* which component's operations are being exercised
    \* TextProcessor
    tp_status,        \* "none" before __init__, "constructed" after it returned
    batch_size,
    overlap_size,
    \* one split_into_batches call
    split_pc,         \* "idle" | "while" | "returned" | "raised"
    words,
    by_sentence,
    start_idx,
    end_idx,          \* end_idx of the last chunk cut by the while loop
    batches,
    \* one KimiEngine._recursive_rag_compress call
    fit_pc,           \* "idle" | "split" | "returned" | "raised"
    fit_text,         \* the argument `text`
    target_token_limit,
    fit_result,       \* the returned string, once fit_pc = "returned"
    fit_error,        \* the exception's type, once fit_pc = "raised"
    fit_trace,        \* what the call has constructed and called so far, in order
    \* one TextProcessor.classify_by_entropy call
    cl_pc,            \* "idle" | "called" | "returned"
    entropy_threshold,
    entropy_method,
    cl_batches,       \* the argument `batches`
    cl_threshold,     \* the argument `threshold`: <<t>>, or <<>> for None
    entropy_of,       \* what calculate_entropy returns for each chunk of this call
    useful_batches,
    less_useful_batches,
    \* RAGManager
    rag_status,       \* "none" | "loading" | "fallback" | "constructed" | "raised"
    rag_error,        \* "none", or what left the constructor
    embedding_model,  \* "none" | "configured" | "fallback"
    loads,            \* every load of an embedding model so far, with its outcome
    use_faiss,
    texts,            \* self.texts: the stored summaries
    embeddings,       \* self.embeddings
    index,            \* the vectors held by the FAISS index, in insertion order
    rag_op,           \* the last call made on the store, with what it returned
    \* one batch_store call
    bs_pc,            \* "idle" | "loop"
    bs_texts,         \* the argument `texts`
    bs_i,             \* position of the for loop in bs_texts
    summaries,
    new_vectors,
    new_summaries,
    \* history kept for the properties (not state of the program)
    sources,          \* the text each record of self.embeddings was made from
    bs_pre,           \* the store when the batch_store that is the last call was entered
    rag_seen,         \* the last retrieve made while that batch_store ran: the store it met
    \* FrameworkGenerator.generate_solution_mpr
    mpr_pc,           \* "idle" | "loop" | "returned" | "raised"
    mpr_args,
    sampled_contexts,
    candidates,
    final_solution,
    mpr_error,        \* "none", or what left the call
    \* KimiEngine
    eng_status,       \* "none" | "constructed"
    conversation_history,
    llm_interface,    \* the LLM instance the engine holds (0: None)
    eng_op,           \* the last call made on the engine, with how it ended
    \* EntropyEvaluator.calculate_word_entropy, called on one text after another
    ent_texts,        \* the texts of the calls, in call order
    ent_pc,           \* how many of the calls have returned
    ent_values,       \* what they returned
    \* the API server: its SessionManager, the module's global engine, the clock
    now,              \* time.time()
    sessions,         \* session id -> [engine |-> the session's KimiEngine]
    session_timeouts, \* session id -> expiry time
    last_cleanup,
    engine,           \* the global engine of server.py
    srv_op,           \* the last request or SessionManager call, with how it ended
    \* one EntropyEvaluator.evaluate_text call
    ev_pc,            \* "idle" | "called" | "returned" | "raised"
    ev_entropies,     \* the four entropies measured on the text
    ev_weights,       \* the weights argument
    ev_result,        \* the returned weighted_entropy, or the error's type
    \* one KimiEngine._get_recent_context call
    ctx_pc,           \* "idle" | "called" | "returned"
    ctx_history,      \* self.conversation_history at the call
    max_tokens,
    final_context     \* the returned string

tpVars == <<tp_status, batch_size, overlap_size>>

splitVars == <<split_pc, words, by_sentence, start_idx, end_idx, batches>>

fitVars == <<fit_pc, fit_text, target_token_limit, fit_result, fit_error, fit_trace>>

clVars == <<cl_pc, entropy_threshold, entropy_method, cl_batches, cl_threshold,
           entropy_of, useful_batches, less_useful_batches>>

storeVars == <<use_faiss, texts, embeddings, index>>

bsVars == <<bs_pc, bs_texts, bs_i, summaries, new_vectors, new_summaries>>

ctorVars == <<rag_status, rag_error, embedding_model, loads>>

ragVars == <<ctorVars, storeVars, rag_op, bsVars, sources, bs_pre, rag_seen>>

mprVars == <<mpr_pc, mpr_args, sampled_contexts, candidates, final_solution, mpr_error>>

engVars == <<eng_status, conversation_history, llm_interface, eng_op>>

entVars == <<ent_texts, ent_pc, ent_values>>

srvVars == <<now, sessions, session_timeouts, last_cleanup, engine, srv_op>>

evVars == <<ev_pc, ev_entropies, ev_weights, ev_result>>

ctxVars == <<ctx_pc, ctx_history, max_tokens, final_context>>

vars == <<scenario, tpVars, splitVars, fitVars, clVars, ragVars, mprVars, engVars, entVars,
          srvVars, evVars, ctxVars>>

\* what each component's operations leave alone
tpOther == <<scenario, fitVars, clVars, ragVars, mprVars, engVars, entVars, srvVars, evVars,
    ctxVars>>

fitOther == <<scenario, clVars, ragVars, mprVars, engVars, entVars, srvVars, evVars,
    ctxVars>>

clOther == <<scenario, tpVars, splitVars, fitVars, ragVars, mprVars, engVars, entVars, srvVars, evVars,
    ctxVars>>

\* the RAGManager's actions leave the engine that holds it as it is
ragOther == <<scenario, tpVars, splitVars, fitVars, clVars, mprVars, engVars, entVars, srvVars, evVars,
    ctxVars>>

\* what the engine's calls leave alone besides the store they use
engOther == <<scenario, tpVars, splitVars, fitVars, clVars, mprVars, entVars, srvVars, evVars,
    ctxVars>>

mprOther == <<scenario, tpVars, splitVars, fitVars, clVars, ragVars, engVars, entVars, srvVars, evVars,
    ctxVars>>

entOther == <<scenario, tpVars, splitVars, fitVars, clVars, ragVars, mprVars, engVars, srvVars, evVars,
    ctxVars>>

srvOther == <<scenario, tpVars, splitVars, fitVars, clVars, ragVars, mprVars, engVars, entVars,
             evVars, ctxVars>>

evOther == <<scenario, tpVars, splitVars, fitVars, clVars, ragVars, mprVars, engVars, entVars,
            srvVars, ctxVars>>

ctxOther == <<scenario, tpVars, splitVars, fitVars, clVars, ragVars, mprVars, engVars, entVars,
             srvVars, evVars>>

(***************************************************************************)
(* The state of a component no call has been made on.                      *)
(***************************************************************************)
IdleSplit ==
    /\ split_pc = "idle"
    /\ words = <<>>
    /\ by_sentence = TRUE
    /\ start_idx = 0
    /\ end_idx = 0
    /\ batches = <<>>

IdleFit ==
    /\ fit_pc = "idle"
    /\ fit_text = <<>>
    /\ target_token_limit = 0
    /\ fit_result = <<>>
    /\ fit_error = "none"
    /\ fit_trace = <<>>

IdleClassify ==
    /\ cl_pc = "idle"
    /\ entropy_threshold = 0
    /\ entropy_method = "weighted"
    /\ cl_batches = <<>>
    /\ cl_threshold = <<>>
    /\ entropy_of = <<>>
    /\ useful_batches = <<>>
    /\ less_useful_batches = <<>>


(***************************************************************************)
(* TextProcessor.                                                          *)
(***************************************************************************)
\* the words the model feeds to split_into_batches
WordAlphabet == {<<"a">>, <<"b">>, <<"a", ".">>}

BatchSizes == 1..MaxBatchSize

OverlapSizes == (0..MaxOverlap) \cup {DefaultOverlapSize}

\* TextProcessor.__init__: stores its arguments; there is no validation
TextProcessorInit(b, o) ==
    /\ tp_status = "none"
    /\ tp_status' = "constructed"
    /\ batch_size' = b
    /\ overlap_size' = o
    /\ UNCHANGED <<splitVars, tpOther>>

\* the for loop of the by_sentence branch: the last sentence end strictly
\* inside the window (index start excluded), else the window's end
SentenceEndIdx(ws, start, bsize) ==
    LET hi == Min(start + bsize, Len(ws))
        ends == {i \in (start + 1)..(hi - 1) : EndsSentence(ws[i + 1])}
    IN  IF ends # {} THEN SetMax(ends) + 1 ELSE hi

\* start_idx = max(0, end_idx - self.overlap_size)
NextStart(e, o) == Max(0, e - o)

\* the else branch: one chunk words[i:i+batch_size] per i of the range
RECURSIVE FixedChunks(_, _, _, _)
FixedChunks(ws, i, bsize, step) ==
    IF i >= Len(ws) THEN <<>>
    ELSE <<Join(Slice(ws, i, i + bsize), <<" ">>)>> \o FixedChunks(ws, i + step, bsize, step)

\* split_into_batches is entered: words = text.split(); the else branch runs
\* to its end here (range() with step 0 raises ValueError, a negative step
\* gives the empty range), the by_sentence branch enters its while loop
SplitCall(ws, bs) ==
    /\ tp_status = "constructed"
    /\ split_pc \in {"idle", "returned", "raised"}
    /\ fit_pc # "split"
    /\ words' = ws
    /\ by_sentence' = bs
    /\ start_idx' = 0
    /\ end_idx' = 0
    /\ IF bs
       THEN /\ split_pc' = "while"
            /\ batches' = <<>>
       ELSE LET step == batch_size - overlap_size IN
            IF step = 0
            THEN /\ split_pc' = "raised"
                 /\ batches' = <<>>
            ELSE /\ split_pc' = "returned"
                 /\ batches' = IF step < 0 THEN <<>>
                               ELSE FixedChunks(ws, 0, batch_size, step)
    /\ UNCHANGED <<tpVars, tpOther>>

\* one iteration of `while start_idx < len(words)`
SplitWhileStep ==
    /\ split_pc = "while"
    /\ start_idx < Len(words)
    /\ Len(batches) < MaxChunks
    /\ LET e == SentenceEndIdx(words, start_idx, batch_size) IN
       /\ end_idx' = e
       /\ batches' = Append(batches, Join(Slice(words, start_idx, e), <<" ">>))
       /\ start_idx' = NextStart(e, overlap_size)
    /\ UNCHANGED <<tpVars, split_pc, words, by_sentence, tpOther>>

\* the while loop's exit and `return batches`
SplitReturn ==
    /\ split_pc = "while"
    /\ start_idx >= Len(words)
    /\ split_pc' = "returned"
    /\ UNCHANGED <<tpVars, words, by_sentence, start_idx, end_idx, batches, tpOther>>

\* no call made on the store yet
NoRagOp ==
    [name |-> "none", text |-> <<>>, top_k |-> 0, summary |-> <<>>,
     inserted |-> FALSE, calls |-> <<>>, failed |-> "none", error |-> "none",
     ret_key |-> <<>>, ret_list |-> <<>>]

NoSnapshot == [texts |-> <<>>, embeddings |-> <<>>, index |-> <<>>]

IdleBatchStore ==
    /\ bs_pc = "idle"
    /\ bs_texts = <<>>
    /\ bs_i = 0
    /\ summaries = <<>>
    /\ new_vectors = <<>>
    /\ new_summaries = <<>>

\* RAGManager.__init__: empty lists and an empty index
EmptyStore ==
    /\ texts = <<>>
    /\ embeddings = <<>>
    /\ index = <<>>
    /\ rag_op = NoRagOp
    /\ IdleBatchStore
    /\ sources = <<>>
    /\ bs_pre = NoSnapshot
    /\ rag_seen = <<>>

\* no RAGManager constructed yet
IdleRag ==
    /\ rag_status = "none"
    /\ rag_error = "none"
    /\ embedding_model = "none"
    /\ loads = <<>>
    /\ use_faiss = FALSE
    /\ EmptyStore

NoMprArgs ==
    [useful_context |-> <<>>, rag_context |-> <<>>, num_candidates |-> 0,
     context_strategy |-> "none", synthesis_strategy |-> "none"]

IdleMpr ==
    /\ mpr_pc = "idle"
    /\ mpr_args = NoMprArgs
    /\ sampled_contexts = <<>>
    /\ candidates = <<>>
    /\ final_solution = <<>>
    /\ mpr_error = "none"

NoEngOp ==
    [name |-> "none", seq |-> 0, outcome |-> "none", had_records |-> FALSE,
     had_history |-> FALSE]

\* no KimiEngine constructed
IdleEngine ==
    /\ eng_status = "none"
    /\ conversation_history = <<>>
    /\ llm_interface = 0
    /\ eng_op = NoEngOp

\* no calculate_word_entropy call made
IdleEntropy ==
    /\ ent_texts = <<>>
    /\ ent_pc = 0
    /\ ent_values = <<>>

\* engine_factory(): a KimiEngine with no history and an empty store
NewEngine == [history |-> <<>>, records |-> <<>>]

NoSrvOp ==
    [name |-> "none", session |-> "none", found |-> FALSE, expired |-> FALSE,
     outcome |-> "none"]

\* the server as initialize_engine leaves it, before any request
IdleServer ==
    /\ now = 0
    /\ sessions = <<>>
    /\ session_timeouts = <<>>
    /\ last_cleanup = 0
    /\ engine = NewEngine
    /\ srv_op = NoSrvOp

\* no evaluate_text call made
IdleEvaluate ==
    /\ ev_pc = "idle"
    /\ ev_entropies = <<>>
    /\ ev_weights = <<>>
    /\ ev_result = <<>>

\* no _get_recent_context call made
IdleContext ==
    /\ ctx_pc = "idle"
    /\ ctx_history = <<>>
    /\ max_tokens = 0
    /\ final_context = <<>>

InitSplit ==
    /\ scenario = "split"
    /\ tp_status = "none"
    /\ batch_size = 0
    /\ overlap_size = 0
    /\ IdleSplit
    /\ IdleFit
    /\ IdleClassify
    /\ IdleRag
    /\ IdleMpr
    /\ IdleEngine
    /\ IdleEntropy
    /\ IdleServer
    /\ IdleEvaluate
    /\ IdleContext

NextSplit ==
    \/ \E b \in BatchSizes, o \in OverlapSizes : TextProcessorInit(b, o)
    \/ \E ws \in SeqsUpTo(WordAlphabet, MaxWords), bs \in BOOLEAN : SplitCall(ws, bs)
    \/ SplitWhileStep
    \/ SplitReturn

SpecSplit == InitSplit /\ [][NextSplit]_vars

(***************************************************************************)
(* Tokenizer (SimpleTokenizer, one token per character) and TokenCounter.  *)
(***************************************************************************)
\* SimpleTokenizer.encode: max_length is honoured only when it is truthy
Encode(text, max_length, truncation) ==
    IF max_length # 0 /\ truncation /\ Len(text) > max_length
    THEN SubSeq(text, 1, max_length)
    ELSE text

\* SimpleTokenizer.decode
Decode(tokens) == tokens

\* TokenCounter.count_tokens
CountTokens(text) == IF text = <<>> THEN 0 ELSE Len(Encode(text, 0, FALSE))

(***************************************************************************)
(* KimiEngine._recursive_rag_compress.  The engine's processor is          *)
(* TextProcessor(batch_size=...) and so has the default overlap_size.      *)
(***************************************************************************)
TextAlphabet == {"a", ".", " "}

Texts == SeqsUpTo(TextAlphabet, MaxTextLen)

\* `current_tokens < target_token_limit`: a text of exactly the limit is compressed
WithinLimitStrict(text, limit) == CountTokens(text) < limit

\* `if current_tokens <= target_token_limit`
WithinLimit(text, limit) == CountTokens(text) <= limit

\* Entry: the text is measured; a text within the limit is returned as it
\* is, otherwise a temporary RAGManager is made and the text is split
FitCall(text, limit) ==
    /\ tp_status = "constructed"
    /\ fit_pc \in {"idle", "returned", "raised"}
    /\ fit_text' = text
    /\ target_token_limit' = limit
    /\ fit_error' = "none"
    /\ IF WithinLimit(text, limit)
       THEN /\ fit_pc' = "returned"
            /\ fit_result' = text
            /\ fit_trace' = <<>>
            /\ UNCHANGED splitVars
       ELSE /\ fit_pc' = "split"
            /\ fit_result' = <<>>
            /\ fit_trace' = <<"RAGManager", "split_into_batches">>
            /\ split_pc' = "while"
            /\ words' = StrSplit(text)
            /\ by_sentence' = TRUE
            /\ start_idx' = 0
            /\ end_idx' = 0
            /\ batches' = <<>>
    /\ UNCHANGED <<tpVars, fitOther>>

\* split_into_batches has returned: the chunks are classified, the less
\* useful ones stored in temp_rag, and `temp_rag.rag_store` is read.
\* RAGManager has no attribute rag_store, so the read raises AttributeError
\* whatever classify and batch_store produced
FitRecombine ==
    /\ fit_pc = "split"
    /\ split_pc = "returned"
    /\ fit_pc' = "raised"
    /\ fit_error' = "AttributeError"
    /\ fit_trace' = fit_trace \o <<"classify_by_entropy", "batch_store">>
    /\ UNCHANGED <<tpVars, splitVars, fitOther, fit_text, target_token_limit, fit_result>>

InitFit ==
    /\ scenario = "fit"
    /\ tp_status = "constructed"
    /\ batch_size \in BatchSizes \cup {DefaultBatchSize}
    /\ overlap_size = DefaultOverlapSize
    /\ IdleSplit
    /\ IdleFit
    /\ IdleClassify
    /\ IdleRag
    /\ IdleMpr
    /\ IdleEngine
    /\ IdleEntropy
    /\ IdleServer
    /\ IdleEvaluate
    /\ IdleContext

NextFit ==
    \/ \E text \in Texts, limit \in 0..MaxTextLen : FitCall(text, limit)
    \/ SplitWhileStep
    \/ SplitReturn
    \/ FitRecombine

SpecFit == InitFit /\ [][NextFit]_vars

(***************************************************************************)
(* TextProcessor.classify_by_entropy.  The entropies are real numbers the  *)
(* EntropyEvaluator computes from the chunk and, when context_aware, from  *)
(* the whole list; the model takes them as given per chunk text, as        *)
(* integers on a common scale.                                             *)
(***************************************************************************)
ClassifyChunks == {<<"a">>, <<"b">>}

EntropyMethods == {"word", "ngram", "semantic", "structural", "weighted", "other"}

\* results of EntropyEvaluator.evaluate_text the model draws from
EntropyResults ==
    { [word_entropy |-> 0, ngram_entropy |-> 1, semantic_entropy |-> 2,
       structural_entropy |-> 3, weighted_entropy |-> 4],
      [word_entropy |-> 4, ngram_entropy |-> 3, semantic_entropy |-> 1,
       structural_entropy |-> 0, weighted_entropy |-> 2],
      [word_entropy |-> 2, ngram_entropy |-> 0, semantic_entropy |-> 3,
       structural_entropy |-> 4, weighted_entropy |-> 1] }

Thresholds == {0, 2, 4, 5}

\* the if/elif chain that selects the entropy of the configured method
SelectEntropy(entropy_results, method) ==
    CASE method = "word" -> entropy_results.word_entropy
      [] method = "ngram" -> entropy_results.ngram_entropy
      [] method = "semantic" -> entropy_results.semantic_entropy
      [] method = "structural" -> entropy_results.structural_entropy
      [] OTHER -> entropy_results.weighted_entropy

\* a classifier for which a chunk exactly on the threshold is not useful (the
\* variant C8 is tested against)
IsUsefulStrict(entropy, threshold) == entropy > threshold

\* `if entropy >= threshold`: the chunk is useful
IsUseful(entropy, threshold) == entropy >= threshold

\* the classification loop over zip(batches, entropies): the useful chunks
\* when want_useful, the less useful ones otherwise, appended in list order
RECURSIVE ClassifyLoop(_, _, _, _)
ClassifyLoop(bs, entropies, threshold, want_useful) ==
    IF bs = <<>> THEN <<>>
    ELSE LET rest == ClassifyLoop(Tail(bs), Tail(entropies), threshold, want_useful) IN
         IF IsUseful(Head(entropies), threshold) = want_useful
         THEN <<Head(bs)>> \o rest
         ELSE rest

\* classify_by_entropy(batches, threshold)
ClassifyByEntropy ==
    /\ cl_pc = "called"
    /\ LET threshold == IF cl_threshold = <<>> THEN entropy_threshold ELSE cl_threshold[1]
           entropies == [i \in 1..Len(cl_batches) |->
                            SelectEntropy(entropy_of[cl_batches[i]], entropy_method)]
       IN  /\ useful_batches' = ClassifyLoop(cl_batches, entropies, threshold, TRUE)
           /\ less_useful_batches' = ClassifyLoop(cl_batches, entropies, threshold, FALSE)
    /\ cl_pc' = "returned"
    /\ UNCHANGED <<clOther, entropy_threshold, entropy_method, cl_batches, cl_threshold,
                   entropy_of>>

\* a constructed TextProcessor and the arguments of one call
InitClassify ==
    /\ scenario = "classify"
    /\ tp_status = "constructed"
    /\ batch_size = DefaultBatchSize
    /\ overlap_size = DefaultOverlapSize
    /\ IdleSplit
    /\ IdleFit
    /\ cl_pc = "called"
    /\ entropy_threshold \in {1, 3}
    /\ entropy_method \in EntropyMethods
    /\ cl_batches \in SeqsUpTo(ClassifyChunks, MaxClassify)
    /\ cl_threshold \in {<<t>> : t \in Thresholds} \cup {<<>>}
    /\ entropy_of \in [ClassifyChunks -> EntropyResults]
    /\ useful_batches = <<>>
    /\ less_useful_batches = <<>>
    /\ IdleRag
    /\ IdleMpr
    /\ IdleEngine
    /\ IdleEntropy
    /\ IdleServer
    /\ IdleEvaluate
    /\ IdleContext

NextClassify == ClassifyByEntropy

SpecClassify == InitClassify /\ [][NextClassify]_vars

(***************************************************************************)
(* RAGManager (core/rag.py).  The language model and the embedding model   *)
(* are outside the program: generate returns any of LLMOutputs, encode     *)
(* maps a string to a fixed unit vector.                                   *)
(***************************************************************************)
RagTexts == {<<"a">>, <<"b">>}

Queries == RagTexts \cup {<<"c">>}

LLMOutputs == {<<"a">>, <<"b">>, <<"b", " ">>}

RECURSIVE LStrip(_)
LStrip(s) ==
    IF s # <<>> /\ Head(s) \in Whitespace THEN LStrip(Tail(s)) ELSE s

RECURSIVE RStrip(_)
RStrip(s) ==
    IF s # <<>> /\ s[Len(s)] \in Whitespace
    THEN RStrip(SubSeq(s, 1, Len(s) - 1))
    ELSE s

\* str.strip()
Strip(s) == RStrip(LStrip(s))

\* summarize_text, given what self.model.generate returned for the prompt
SummarizeText(generated) == Strip(generated)

\* embedding_model.encode
Embed(s) ==
    CASE s = <<"a">> -> <<1, 0>>
      [] s = <<"b">> -> <<0, 1>>
      [] OTHER -> <<-1, 0>>

Dot(u, v) == u[1] * v[1] + u[2] * v[2]

\* squared L2 distance, the metric of faiss.IndexFlatL2
L2(u, v) == (u[1] - v[1]) * (u[1] - v[1]) + (u[2] - v[2]) * (u[2] - v[2])

\* a store that takes no summary for a duplicate (the variant C7 is tested against)
IsDuplicateNever(summary, txts) == FALSE

\* `summary in self.texts`
IsDuplicate(summary, txts) == summary \in Range(txts)

Snapshot == [texts |-> texts, embeddings |-> embeddings, index |-> index]

\* RAGManager(model, embedding_model_name, use_faiss): up to the first load of
\* the embedding model (rag.py:50), which no try block encloses, and the
\* creation of the empty lists and index
RagInit(model_is_none, use_faiss_arg, load_ok) ==
    /\ rag_status = "none"
    /\ IF model_is_none
       THEN /\ rag_status' = "raised"
            /\ rag_error' = "ValueError"
            /\ UNCHANGED <<embedding_model, loads, use_faiss>>
       ELSE /\ loads' = Append(loads, [model |-> "configured", ok |-> load_ok])
            /\ IF load_ok
               THEN /\ rag_status' = "loading"
                    /\ embedding_model' = "configured"
                    /\ use_faiss' = use_faiss_arg
                    /\ UNCHANGED rag_error
               ELSE /\ rag_status' = "raised"
                    /\ rag_error' = "load"
                    /\ UNCHANGED <<embedding_model, use_faiss>>
    /\ UNCHANGED <<texts, embeddings, index, rag_op, bsVars, sources, bs_pre, rag_seen, ragOther>>

\* the try block of rag.py:63-75: the configured model is loaded again, then
\* _initialize_faiss_index, which turns use_faiss off when the index fails
RagInitTry(load_ok, index_ok) ==
    /\ rag_status = "loading"
    /\ loads' = Append(loads, [model |-> "configured", ok |-> load_ok])
    /\ IF load_ok
       THEN /\ rag_status' = "constructed"
            /\ use_faiss' = (use_faiss /\ index_ok)
       ELSE /\ rag_status' = "fallback"
            /\ UNCHANGED use_faiss
    /\ UNCHANGED <<embedding_model, rag_error, texts, embeddings, index, rag_op, bsVars,
                   sources, bs_pre, rag_seen, ragOther>>

\* the except block of rag.py:77-98: the fallback model is loaded
RagInitFallback(load_ok, index_ok) ==
    /\ rag_status = "fallback"
    /\ loads' = Append(loads, [model |-> "fallback", ok |-> load_ok])
    /\ IF load_ok
       THEN /\ rag_status' = "constructed"
            /\ embedding_model' = "fallback"
            /\ use_faiss' = (use_faiss /\ index_ok)
            /\ UNCHANGED rag_error
       ELSE /\ rag_status' = "raised"
            /\ rag_error' = "RuntimeError"
            /\ UNCHANGED <<embedding_model, use_faiss>>
    /\ UNCHANGED <<texts, embeddings, index, rag_op, bsVars, sources, bs_pre, rag_seen, ragOther>>

\* store_text(text); `generated` is what the model returned for the summary
\* prompt, encode_ok and add_ok tell whether embedding_model.encode and
\* index.add return or raise
StoreText(text, generated, encode_ok, add_ok) ==
    LET summary == SummarizeText(generated)
        dup == IsDuplicate(summary, texts)
        adds == ~dup /\ encode_ok /\ use_faiss
    IN  /\ rag_status = "constructed"
        /\ bs_pc = "idle"
        /\ dup => encode_ok
        /\ ~adds => add_ok
        /\ IF dup
           THEN UNCHANGED <<texts, embeddings, index, sources>>
           ELSE IF ~encode_ok
           THEN \* the summary is already appended when encode raises
                /\ texts' = Append(texts, summary)
                /\ UNCHANGED <<embeddings, index, sources>>
           ELSE /\ texts' = IF use_faiss
                            THEN texts \o <<summary, summary>>
                            ELSE Append(texts, summary)
                /\ embeddings' = Append(embeddings, Embed(summary))
                /\ index' = IF use_faiss /\ add_ok THEN Append(index, Embed(summary)) ELSE index
                /\ sources' = Append(sources, text)
        /\ rag_op' = [name |-> "store_text", text |-> text,
                      top_k |-> 0, summary |-> summary, inserted |-> ~dup /\ encode_ok,
                      calls |-> IF dup THEN <<>>
                                ELSE IF adds THEN <<"encode", "add">> ELSE <<"encode">>,
                      failed |-> IF ~encode_ok THEN "encode"
                                 ELSE IF ~add_ok THEN "add" ELSE "none",
                      error |-> IF ~encode_ok THEN "encode" ELSE "none",
                      ret_key |-> IF encode_ok THEN summary ELSE <<>>, ret_list |-> <<>>]
        /\ bs_pre' = NoSnapshot
        /\ rag_seen' = <<>>
        /\ UNCHANGED <<ctorVars, use_faiss, bsVars, ragOther>>

\* batch_store(texts): entry; an empty argument returns [] at once
BatchStoreCall(ts) ==
    /\ rag_status = "constructed"
    /\ bs_pc = "idle"
    /\ rag_op' = [NoRagOp EXCEPT !.name = "batch_store"]
    /\ bs_texts' = ts
    /\ bs_i' = 0
    /\ summaries' = <<>>
    /\ new_vectors' = <<>>
    /\ new_summaries' = <<>>
    /\ bs_pc' = IF ts = <<>> THEN "idle" ELSE "loop"
    /\ bs_pre' = Snapshot
    /\ rag_seen' = <<>>
    /\ UNCHANGED <<ctorVars, storeVars, sources, ragOther>>

\* one iteration of `for text in texts`; an encode that raises leaves batch_store
BatchStoreItem(generated, encode_ok) ==
    LET text == bs_texts[bs_i + 1]
        summary == SummarizeText(generated)
        dup == IsDuplicate(summary, texts)
    IN  /\ bs_pc = "loop"
        /\ bs_i < Len(bs_texts)
        /\ dup => encode_ok
        /\ IF dup
           THEN /\ bs_i' = bs_i + 1
                /\ summaries' = Append(summaries, summary)
                /\ UNCHANGED <<texts, embeddings, new_vectors, new_summaries, sources,
                               rag_op, bs_pc, bs_texts>>
           ELSE IF ~encode_ok
           THEN /\ texts' = Append(texts, summary)
                /\ rag_op' = [rag_op EXCEPT !.calls = Append(@, "encode"),
                                            !.failed = "encode", !.error = "encode"]
                /\ bs_pc' = "idle"
                /\ bs_texts' = <<>>
                /\ bs_i' = 0
                /\ summaries' = <<>>
                /\ new_vectors' = <<>>
                /\ new_summaries' = <<>>
                /\ UNCHANGED <<embeddings, sources>>
           ELSE /\ bs_i' = bs_i + 1
                /\ texts' = Append(texts, summary)
                /\ embeddings' = Append(embeddings, Embed(summary))
                /\ summaries' = Append(summaries, summary)
                /\ new_vectors' = Append(new_vectors, Embed(summary))
                /\ new_summaries' = Append(new_summaries, summary)
                /\ sources' = Append(sources, text)
                /\ rag_op' = [rag_op EXCEPT !.calls = Append(@, "encode")]
                /\ UNCHANGED <<bs_pc, bs_texts>>
        /\ UNCHANGED <<ctorVars, use_faiss, index, bs_pre, rag_seen, ragOther>>

\* after the loop: the batched extend and index.add, then return summaries
BatchStoreFlush(add_ok) ==
    LET adds == use_faiss /\ new_vectors # <<>>
    IN  /\ bs_pc = "loop"
        /\ bs_i = Len(bs_texts)
        /\ ~adds => add_ok
        /\ IF adds
           THEN /\ texts' = texts \o new_summaries
                /\ index' = IF add_ok THEN index \o new_vectors ELSE index
           ELSE UNCHANGED <<texts, index>>
        /\ rag_op' = [rag_op EXCEPT !.ret_list = summaries,
                                    !.calls = IF adds THEN Append(@, "add") ELSE @,
                                    !.failed = IF add_ok THEN "none" ELSE "add"]
        /\ bs_pc' = "idle"
        /\ bs_texts' = <<>>
        /\ bs_i' = 0
        /\ summaries' = <<>>
        /\ new_vectors' = <<>>
        /\ new_summaries' = <<>>
        /\ UNCHANGED <<ctorVars, use_faiss, embeddings, sources, bs_pre, rag_seen, ragOther>>

Perms(n) == {p \in [1..n -> 1..n] : \A i, j \in 1..n : i # j => p[i] # p[j]}

\* the orders that sort `keys` ascending (any order among equal keys)
AscendingOrders(keys) ==
    {p \in Perms(Len(keys)) : \A i \in 1..(Len(keys) - 1) : keys[p[i]] <= keys[p[i + 1]]}

\* index.search(q, k): 0-based labels by ascending distance; FAISS fills the
\* places beyond ntotal with the label -1
IndexSearch(idx, q, k) ==
    LET dist == [i \in 1..Len(idx) |-> L2(q, idx[i])]
    IN  {[j \in 1..k |-> IF j <= Len(idx) THEN p[j] - 1 ELSE -1] : p \in AscendingOrders(dist)}

\* seq[idx] of a Python list: a negative idx counts from the end
PyIndex(seq, idx) == IF idx >= 0 THEN seq[idx + 1] ELSE seq[Len(seq) + idx + 1]

\* the loop over indices[0] in retrieve
RECURSIVE FaissResults(_, _)
FaissResults(labels, txts) ==
    IF labels = <<>> THEN <<>>
    ELSE LET idx == Head(labels)
             rest == FaissResults(Tail(labels), txts)
         IN  IF idx < Len(txts) /\ PyIndex(txts, idx) \in Range(txts)
             THEN <<PyIndex(txts, idx)>> \o rest
             ELSE rest

\* np.argsort(similarities)[::-1][:top_k], then the filter similarities[i] > 0
SklearnResults(q, top_k) ==
    LET sims == [i \in 1..Len(embeddings) |-> Dot(q, embeddings[i])]
        neg == [i \in 1..Len(embeddings) |-> 0 - sims[i]]
    IN  {LET top == SubSeq(p, 1, Min(top_k, Len(p)))
             kept == SelectSeq(top, LAMBDA i : sims[i] > 0)
         IN  [j \in 1..Len(kept) |-> texts[kept[j]]] : p \in AscendingOrders(neg)}

\* how retrieve(query, top_k) may end on the store as it is now; encode_ok and
\* search_ok tell whether embedding_model.encode and index.search return or raise
\* the first test alone: `if not self.texts`
NothingStoredTextsOnly(txts, embs) == txts = <<>>

\* `if not self.texts: return []` and `if not self.embeddings: return []`
NothingStored(txts, embs) == txts = <<>> \/ embs = <<>>

RetrieveOutcomes(query, top_k, encode_ok, search_ok) ==
    IF NothingStored(texts, embeddings)
    THEN {[ret_list |-> <<>>, calls |-> <<>>, failed |-> "none", error |-> "none"]}
    ELSE IF ~encode_ok
    THEN {[ret_list |-> <<>>, calls |-> <<"encode">>, failed |-> "encode", error |-> "encode"]}
    ELSE IF use_faiss /\ search_ok
    THEN {[ret_list |-> FaissResults(labels, texts), calls |-> <<"encode", "search">>,
           failed |-> "none", error |-> "none"] :
              labels \in IndexSearch(index, Embed(query), Min(top_k, Len(texts)))}
    ELSE {[ret_list |-> results,
           calls |-> IF use_faiss THEN <<"encode", "search">> ELSE <<"encode">>,
           failed |-> IF use_faiss THEN "search" ELSE "none", error |-> "none"] :
              results \in SklearnResults(Embed(query), top_k)}

\* the calls of encode and index.search whose outcome the call can meet
RetrieveFaults(encode_ok, search_ok) ==
    /\ NothingStored(texts, embeddings) => encode_ok
    /\ (NothingStored(texts, embeddings) \/ ~encode_ok \/ ~use_faiss) => search_ok

\* retrieve(query, top_k) while no batch_store is running
Retrieve(query, top_k, encode_ok, search_ok) ==
    /\ rag_status = "constructed"
    /\ bs_pc = "idle"
    /\ RetrieveFaults(encode_ok, search_ok)
    /\ \E out \in RetrieveOutcomes(query, top_k, encode_ok, search_ok) :
           rag_op' = [name |-> "retrieve", text |-> query,
                      top_k |-> top_k, summary |-> <<>>, inserted |-> FALSE,
                      calls |-> out.calls, failed |-> out.failed, error |-> out.error,
                      ret_key |-> <<>>, ret_list |-> out.ret_list]
    /\ bs_pre' = NoSnapshot
    /\ rag_seen' = <<>>
    /\ UNCHANGED <<ctorVars, storeVars, bsVars, sources, ragOther>>

\* retrieve(query, top_k) from another thread between two steps of batch_store
RetrieveDuringBatch(query, top_k, encode_ok, search_ok) ==
    /\ bs_pc = "loop"
    /\ RetrieveFaults(encode_ok, search_ok)
    /\ \E out \in RetrieveOutcomes(query, top_k, encode_ok, search_ok) :
           rag_seen' = <<[store |-> Snapshot, query |-> query, top_k |-> top_k,
                          error |-> out.error, ret_list |-> out.ret_list]>>
    /\ UNCHANGED <<ctorVars, storeVars, rag_op, bsVars, sources, bs_pre, ragOther>>

InitRag ==
    /\ scenario = "rag"
    /\ tp_status = "none"
    /\ batch_size = 0
    /\ overlap_size = 0
    /\ IdleSplit
    /\ IdleFit
    /\ IdleClassify
    /\ IdleRag
    /\ IdleMpr
    /\ IdleEngine
    /\ IdleEntropy
    /\ IdleServer
    /\ IdleEvaluate
    /\ IdleContext

\* the constructor
NextRagInit ==
    \/ \E model_is_none, use_faiss_arg, load_ok \in BOOLEAN :
           RagInit(model_is_none, use_faiss_arg, load_ok)
    \/ \E load_ok, index_ok \in BOOLEAN : RagInitTry(load_ok, index_ok)
    \/ \E load_ok, index_ok \in BOOLEAN : RagInitFallback(load_ok, index_ok)

\* a store whose encode, index.add and index.search calls all return, used
\* from two threads
NextRag ==
    \/ NextRagInit
    \/ \E text \in RagTexts, generated \in LLMOutputs : StoreText(text, generated, TRUE, TRUE)
    \/ \E ts \in SeqsUpTo(RagTexts, MaxBatchTexts) : BatchStoreCall(ts)
    \/ \E generated \in LLMOutputs : BatchStoreItem(generated, TRUE)
    \/ BatchStoreFlush(TRUE)
    \/ \E query \in Queries, top_k \in 1..MaxTopK : Retrieve(query, top_k, TRUE, TRUE)
    \/ \E query \in Queries, top_k \in 1..MaxTopK : RetrieveDuringBatch(query, top_k, TRUE, TRUE)

SpecRag == InitRag /\ [][NextRag]_vars

InitRagFault ==
    /\ scenario = "ragfault"
    /\ tp_status = "none"
    /\ batch_size = 0
    /\ overlap_size = 0
    /\ IdleSplit
    /\ IdleFit
    /\ IdleClassify
    /\ IdleRag
    /\ IdleMpr
    /\ IdleEngine
    /\ IdleEntropy
    /\ IdleServer
    /\ IdleEvaluate
    /\ IdleContext

\* a store used from one thread whose encode, index.add and index.search
\* calls may raise
NextRagFault ==
    \/ NextRagInit
    \/ \E text \in RagTexts, generated \in LLMOutputs, encode_ok, add_ok \in BOOLEAN :
           StoreText(text, generated, encode_ok, add_ok)
    \/ \E ts \in SeqsUpTo(RagTexts, MaxBatchTexts) : BatchStoreCall(ts)
    \/ \E generated \in LLMOutputs, encode_ok \in BOOLEAN : BatchStoreItem(generated, encode_ok)
    \/ \E add_ok \in BOOLEAN : BatchStoreFlush(add_ok)
    \/ \E query \in Queries, top_k \in 1..MaxTopK, encode_ok, search_ok \in BOOLEAN :
           Retrieve(query, top_k, encode_ok, search_ok)

SpecRagFault == InitRagFault /\ [][NextRagFault]_vars

(***************************************************************************)
(* FrameworkGenerator.generate_solution_mpr (core/framework.py).  The      *)
(* model's generate is outside the program: a call returns any of          *)
(* Solutions or raises (an API error, a cancellation).                     *)
(***************************************************************************)
ParagraphSep == <<"\n", "\n">>

SentenceSep == <<".", " ">>

Solutions ==
    {<<"x">>, <<"y">>, <<"x">> \o ParagraphSep \o <<"y">>,
     <<"x">> \o ParagraphSep \o <<"y", ".", " ", "x">> \o ParagraphSep \o <<"y">>}

MprContexts == {<<"r">>, <<>>, <<"R", " ", "u">>}

UsefulContexts == {<<"u">>, <<>>}

ContextStrategies == {"random", "diversity"}

SynthesisStrategies == {"majority", "weighted", "hierarchical", "consensus"}

\* text.split(sep) for a non-empty sep
RECURSIVE SplitSepFrom(_, _, _, _)
SplitSepFrom(text, sep, cur, acc) ==
    IF text = <<>> THEN Append(acc, cur)
    ELSE IF Len(text) >= Len(sep) /\ SubSeq(text, 1, Len(sep)) = sep
         THEN SplitSepFrom(SubSeq(text, Len(sep) + 1, Len(text)), sep, <<>>, Append(acc, cur))
         ELSE SplitSepFrom(Tail(text), sep, Append(cur, Head(text)), acc)

SplitSep(text, sep) == SplitSepFrom(text, sep, <<>>, <<>>)

\* lst.count(x)
Count(lst, x) == Cardinality({i \in 1..Len(lst) : lst[i] = x})

\* max(set(lst), key=lst.count): an element of the highest count; which one
\* among equals depends on the iteration order of the set
Modes(lst) == {x \in Range(lst) : \A y \in Range(lst) : Count(lst, y) <= Count(lst, x)}

\* the items at position i (1-based) of each list, "" where the list is shorter
Column(lists, i) ==
    [c \in 1..Len(lists) |-> IF i <= Len(lists[c]) THEN lists[c][i] ELSE <<>>]

NonBlank(lst) == SelectSeq(lst, LAMBDA p : Strip(p) # <<>>)

RECURSIVE PickSeq(_, _, _)
PickSeq(f, i, n) ==
    IF i > n THEN <<>>
    ELSE (IF i \in DOMAIN f THEN <<f[i]>> ELSE <<>>) \o PickSeq(f, i + 1, n)

\* _random_sampling: random.sample(all_contexts, min(num_samples, len(all_contexts)))
RandomSampling(useful_context, rag_context, num_samples) ==
    LET all_contexts == <<useful_context>> \o rag_context
        k == Min(num_samples, Len(all_contexts))
        picks == {p \in [1..k -> 1..Len(all_contexts)] :
                      \A i, j \in 1..k : i # j => p[i] # p[j]}
    IN  {[j \in 1..k |-> all_contexts[p[j]]] : p \in picks}

\* str.lower() on the characters that occur in the contexts
LowerChar(c) == IF c = "R" THEN "r" ELSE c

Lower(text) == [i \in 1..Len(text) |-> LowerChar(text[i])]

\* set(text.lower().split())
WordSet(text) == Range(StrSplit(Lower(text)))

\* calculate_similarity of _diversity_based_sampling: the Jaccard similarity
\* as the fraction <<numerator, denominator>>; the division raises
\* ZeroDivisionError when neither text holds a word
Jaccard(text1, text2) ==
    <<Cardinality(WordSet(text1) \cap WordSet(text2)),
      Cardinality(WordSet(text1) \cup WordSet(text2))>>

FracLess(a, b) == a[1] * b[2] < b[1] * a[2]

\* max(similarities) of one remaining context against the selected ones
RECURSIVE MaxSimilarity(_, _)
MaxSimilarity(ctx, selected) ==
    IF Len(selected) = 1 THEN Jaccard(ctx, selected[1])
    ELSE LET rest == MaxSimilarity(ctx, Tail(selected))
             first == Jaccard(ctx, selected[1])
         IN  IF FracLess(first, rest) THEN rest ELSE first

\* list.remove(x): without the first item equal to x
RemoveFirst(lst, x) ==
    LET i == CHOOSE k \in 1..Len(lst) : lst[k] = x /\ \A j \in 1..(k - 1) : lst[j] # x
    IN  SubSeq(lst, 1, i - 1) \o SubSeq(lst, i + 1, Len(lst))

\* the while loop of _diversity_based_sampling
RECURSIVE DiversityLoop(_, _, _)
DiversityLoop(selected, remaining, num_samples) ==
    IF ~(Len(selected) < num_samples /\ remaining # <<>>)
    THEN [error |-> "none", value |-> selected]
    ELSE IF \E i \in 1..Len(remaining), j \in 1..Len(selected) :
                Jaccard(remaining[i], selected[j])[2] = 0
    THEN [error |-> "ZeroDivisionError", value |-> <<>>]
    ELSE LET sims == [i \in 1..Len(remaining) |-> MaxSimilarity(remaining[i], selected)]
             \* min returns the first item of the lowest key
             pick == CHOOSE i \in 1..Len(remaining) :
                         /\ \A j \in 1..Len(remaining) : ~FracLess(sims[j], sims[i])
                         /\ \A j \in 1..(i - 1) : FracLess(sims[i], sims[j])
             next_sample == remaining[pick]
         IN  DiversityLoop(Append(selected, next_sample),
                           RemoveFirst(remaining, next_sample), num_samples)

\* _diversity_based_sampling: the ways it can end, one per random first choice
DiversitySampling(useful_context, rag_context, num_samples) ==
    LET all_contexts == <<useful_context>> \o rag_context
    IN  {DiversityLoop(<<all_contexts[f]>>, RemoveFirst(all_contexts, all_contexts[f]),
                       num_samples) : f \in 1..Len(all_contexts)}

\* self.context_sampling_strategies[context_strategy](...)
SampleContexts(context_strategy, useful_context, rag_context, num_samples) ==
    IF context_strategy = "diversity"
    THEN DiversitySampling(useful_context, rag_context, num_samples)
    ELSE {[error |-> "none", value |-> v] :
              v \in RandomSampling(useful_context, rag_context, num_samples)}

\* _majority_vote on a non-empty candidate list: the possible results
MajorityVote(cands) ==
    LET paragraphs == [c \in 1..Len(cands) |-> SplitSep(cands[c], ParagraphSep)]
        max_paragraphs == SetMax({Len(paragraphs[c]) : c \in 1..Len(cands)})
        non_empty(i) == NonBlank(Column(paragraphs, i))
        positions == {i \in 1..max_paragraphs : non_empty(i) # <<>>}
        picks == {f \in [positions -> UNION {Range(non_empty(i)) : i \in positions}] :
                      \A i \in positions : f[i] \in Modes(non_empty(i))}
    IN  {Join(PickSeq(f, 1, max_paragraphs), ParagraphSep) : f \in picks}

\* the sentences _weighted_average keeps: weights are all 1.0 and max returns
\* the first item of the highest weight, so the first non-blank one per position
RECURSIVE FirstNonBlanks(_, _, _)
FirstNonBlanks(sentences, i, n) ==
    IF i > n THEN <<>>
    ELSE LET non_empty == NonBlank(Column(sentences, i))
         IN  (IF non_empty # <<>> THEN <<non_empty[1]>> ELSE <<>>)
                 \o FirstNonBlanks(sentences, i + 1, n)

\* _weighted_average on a non-empty candidate list
WeightedAverage(cands) ==
    LET sentences == [c \in 1..Len(cands) |-> SplitSep(cands[c], SentenceSep)]
        max_sentences == SetMax({Len(sentences[c]) : c \in 1..Len(cands)})
    IN  Join(FirstNonBlanks(sentences, 1, max_sentences), SentenceSep)

\* levels["details"]: paragraphs[1:-1] of every candidate, in order
RECURSIVE Details(_)
Details(paragraphs) ==
    IF paragraphs = <<>> THEN <<>>
    ELSE LET p == Head(paragraphs)
         IN  (IF Len(p) > 1 THEN SubSeq(p, 2, Len(p) - 1) ELSE <<>>)
                 \o Details(Tail(paragraphs))

\* _hierarchical_synthesis: the possible results.  list.extend with the string
\* that _weighted_average returns adds its characters one by one.
HierarchicalSynthesis(cands) ==
    LET paragraphs == [c \in 1..Len(cands) |-> SplitSep(cands[c], ParagraphSep)]
        overview == [c \in 1..Len(cands) |-> paragraphs[c][1]]
        details == Details(paragraphs)
        longer == SelectSeq(paragraphs, LAMBDA p : Len(p) > 2)
        recommendations == [c \in 1..Len(longer) |-> longer[c][Len(longer[c])]]
        averaged == IF details = <<>> THEN <<>> ELSE WeightedAverage(details)
        chars == [j \in 1..Len(averaged) |-> <<averaged[j]>>]
        heads == IF overview = <<>> THEN {<<>>} ELSE {<<o>> : o \in Modes(overview)}
        tails == IF recommendations = <<>> THEN {<<>>}
                 ELSE {<<r>> : r \in Modes(recommendations)}
    IN  {Join(h \o chars \o t, ParagraphSep) : h \in heads, t \in tails}

\* the line _build_consensus_framework starts with, shortened
ConsensusHeader == <<"T", "\n">>

\* the line _integrate_solutions puts before the candidates, shortened
IntegrationHeader == ParagraphSep \o <<"I", "\n">>

\* list(themes): the orders a set of strings may be listed in
Orders(themes) == {order \in [1..Cardinality(themes) -> themes] : Range(order) = themes}

\* _consensus_building: the possible results, one per order of the themes
ConsensusBuilding(cands) ==
    LET themes == UNION {Range(StrSplit(Lower(cands[c]))) : c \in 1..Len(cands)}
    IN  {ConsensusHeader
             \o Join([i \in 1..Len(order) |-> <<"-", " ">> \o order[i]], <<"\n">>)
             \o IntegrationHeader
             \o Join(cands, ParagraphSep) : order \in Orders(themes)}

\* what the selected synthesis strategy does with the candidates: the texts it
\* may return, or the error it raises (max() of an empty sequence)
Synthesize(strategy, cands) ==
    CASE strategy = "majority" ->
             IF cands = <<>> THEN [error |-> "ValueError", values |-> {}]
             ELSE [error |-> "none", values |-> MajorityVote(cands)]
      [] strategy = "weighted" ->
             IF cands = <<>> THEN [error |-> "ValueError", values |-> {}]
             ELSE [error |-> "none", values |-> {WeightedAverage(cands)}]
      [] strategy = "hierarchical" ->
             IF cands = <<>> THEN [error |-> "none", values |-> {<<>>}]
             ELSE [error |-> "none", values |-> HierarchicalSynthesis(cands)]
      [] OTHER -> [error |-> "none", values |-> ConsensusBuilding(cands)]

\* generate_solution_mpr is entered: the contexts are sampled; a sampling
\* that raises leaves the call.  The method keeps nothing between two calls,
\* so one call per behaviour is followed.
MprCall(useful_context, rag_context, num_candidates, context_strategy, synthesis_strategy) ==
    /\ mpr_pc = "idle"
    /\ mpr_args' = [useful_context |-> useful_context, rag_context |-> rag_context,
                    num_candidates |-> num_candidates,
                    context_strategy |-> context_strategy,
                    synthesis_strategy |-> synthesis_strategy]
    /\ \E sampled \in SampleContexts(context_strategy, useful_context, rag_context,
                                      num_candidates) :
           /\ sampled_contexts' = sampled.value
           /\ mpr_error' = sampled.error
           /\ mpr_pc' = IF sampled.error = "none" THEN "loop" ELSE "raised"
    /\ candidates' = <<>>
    /\ final_solution' = <<>>
    /\ UNCHANGED mprOther

\* one iteration of `for ctx in sampled_contexts` whose generate returns
MprGenerate(solution) ==
    /\ mpr_pc = "loop"
    /\ Len(candidates) < Len(sampled_contexts)
    /\ candidates' = Append(candidates, solution)
    /\ UNCHANGED <<mpr_pc, mpr_args, sampled_contexts, final_solution, mpr_error, mprOther>>

\* one iteration whose `await self.model.generate(prompt)` raises: nothing
\* catches it, so it leaves generate_solution_mpr
MprGenerateRaises ==
    /\ mpr_pc = "loop"
    /\ Len(candidates) < Len(sampled_contexts)
    /\ mpr_pc' = "raised"
    /\ mpr_error' = "generate"
    /\ UNCHANGED <<mpr_args, sampled_contexts, candidates, final_solution, mprOther>>

\* after the loop: the selected synthesis strategy, then return
MprSynthesize ==
    /\ mpr_pc = "loop"
    /\ Len(candidates) = Len(sampled_contexts)
    /\ LET synthesized == Synthesize(mpr_args.synthesis_strategy, candidates)
       IN  IF synthesized.error # "none"
           THEN /\ mpr_pc' = "raised"
                /\ mpr_error' = synthesized.error
                /\ UNCHANGED final_solution
           ELSE /\ final_solution' \in synthesized.values
                /\ mpr_pc' = "returned"
                /\ UNCHANGED mpr_error
    /\ UNCHANGED <<mpr_args, sampled_contexts, candidates, mprOther>>

InitMpr ==
    /\ scenario = "mpr"
    /\ tp_status = "none"
    /\ batch_size = 0
    /\ overlap_size = 0
    /\ IdleSplit
    /\ IdleFit
    /\ IdleClassify
    /\ IdleRag
    /\ IdleMpr
    /\ IdleEngine
    /\ IdleEntropy
    /\ IdleServer
    /\ IdleEvaluate
    /\ IdleContext

NextMpr ==
    \/ \E useful_context \in UsefulContexts,
          rag_context \in SeqsUpTo(MprContexts, MaxRagContext),
          num_candidates \in 0..MaxCandidates,
          context_strategy \in ContextStrategies,
          synthesis_strategy \in SynthesisStrategies :
           MprCall(useful_context, rag_context, num_candidates, context_strategy,
                   synthesis_strategy)
    \/ \E solution \in Solutions : MprGenerate(solution)
    \/ MprGenerateRaises
    \/ MprSynthesize

SpecMpr == InitMpr /\ [][NextMpr]_vars

(***************************************************************************)
(* _majority_vote on its own: the candidate list is drawn, then the        *)
(* function is applied.                                                    *)
(***************************************************************************)
CandidateAlphabet == {"x", " ", "\n"}

CandidateTexts == SeqsUpTo(CandidateAlphabet, MaxCandidateLen)

\* the candidate lists: three copies of one text, or up to three solutions
CandidateLists ==
    {<<t, t, t>> : t \in CandidateTexts}
        \cup (SeqsUpTo(Solutions, MaxVotes) \ {<<>>})

\* _majority_vote(query, framework, candidates)
MajorityVoteCall ==
    /\ mpr_pc = "called"
    /\ final_solution' \in MajorityVote(candidates)
    /\ mpr_pc' = "returned"
    /\ UNCHANGED <<mpr_args, sampled_contexts, candidates, mpr_error, mprOther>>

InitMajority ==
    /\ scenario = "majority"
    /\ tp_status = "none"
    /\ batch_size = 0
    /\ overlap_size = 0
    /\ IdleSplit
    /\ IdleFit
    /\ IdleClassify
    /\ IdleRag
    /\ IdleEngine
    /\ IdleEntropy
    /\ IdleServer
    /\ IdleEvaluate
    /\ IdleContext
    /\ mpr_pc = "called"
    /\ mpr_args = [NoMprArgs EXCEPT !.synthesis_strategy = "majority"]
    /\ sampled_contexts = <<>>
    /\ candidates \in CandidateLists
    /\ final_solution = <<>>
    /\ mpr_error = "none"

NextMajority == MajorityVoteCall

SpecMajority == InitMajority /\ [][NextMajority]_vars

(***************************************************************************)
(* KimiEngine (core/engine.py): one constructed engine, its conversation   *)
(* history, its language model and its RAGManager (the store variables     *)
(* above are those of self.rag_manager).                                   *)
(***************************************************************************)
IngestTexts == {<<>>, <<" ">>, <<" ", " ", " ">>, <<"a">>}

ChatQueries == {<<"a">>, <<"c">>}

\* how RAGManager.__init__ ends for the given outcomes of the load at rag.py:50,
\* the load inside the try block and the load of the fallback model
RagCtorResult(load_ok, retry_ok, fallback_ok) ==
    IF ~load_ok THEN "raised"
    ELSE IF retry_ok THEN "configured"
    ELSE IF fallback_ok THEN "fallback"
    ELSE "raised"

\* the loads that construction has made
RagCtorLoads(load_ok, retry_ok, fallback_ok) ==
    <<[model |-> "configured", ok |-> load_ok]>>
        \o (IF load_ok THEN <<[model |-> "configured", ok |-> retry_ok]>> ELSE <<>>)
        \o (IF load_ok /\ ~retry_ok THEN <<[model |-> "fallback", ok |-> fallback_ok]>> ELSE <<>>)

\* how ingest(text) ends: _prepare_llm_input, then split_into_batches with the
\* engine's TextProcessor (overlap_size 50), whose loop never ends once the
\* text holds a word
IngestOutcome(text) ==
    IF StrSplit(text) # <<>> THEN "diverges"
    ELSE IF CountTokens(text) > MaxPromptTokens THEN "AttributeError"
    ELSE "returned"

\* self.conversation_history = []
ClearedHistoryKept(history) == history

ClearedHistory(history) == <<>>

\* ingest(text)
EngineIngest(text) ==
    /\ eng_status = "constructed"
    /\ bs_pc = "idle"
    /\ IF IngestOutcome(text) = "returned"
       THEN \* nothing to store: batch_store([]) returns [] at once
            /\ Len(conversation_history) < MaxHistory
            /\ rag_op' = [NoRagOp EXCEPT !.name = "batch_store"]
            /\ bs_pre' = Snapshot
            /\ rag_seen' = <<>>
            /\ conversation_history' =
                   Append(conversation_history, [role |-> "system", content |-> <<>>])
       ELSE UNCHANGED <<rag_op, bs_pre, rag_seen, conversation_history>>
    /\ eng_op' = [name |-> "ingest", seq |-> 1 - eng_op.seq, outcome |-> IngestOutcome(text),
                  had_records |-> FALSE, had_history |-> FALSE]
    /\ UNCHANGED <<eng_status, llm_interface, ctorVars, storeVars, bsVars, sources, engOther>>

\* chat(query): the query is appended and the store searched; then
\* generate_framework, an async method called without await, hands back a
\* coroutine and framework[:100] raises TypeError
EngineChat(query) ==
    /\ eng_status = "constructed"
    /\ bs_pc = "idle"
    /\ Len(conversation_history) < MaxHistory
    /\ conversation_history' = Append(conversation_history, [role |-> "user", content |-> query])
    /\ \E out \in RetrieveOutcomes(query, DefaultTopK, TRUE, TRUE) :
           rag_op' = [NoRagOp EXCEPT !.name = "retrieve", !.text = query, !.top_k = DefaultTopK,
                                     !.calls = out.calls, !.ret_list = out.ret_list]
    /\ bs_pre' = NoSnapshot
    /\ rag_seen' = <<>>
    /\ eng_op' = [name |-> "chat", seq |-> 1 - eng_op.seq, outcome |-> "TypeError",
                  had_records |-> FALSE, had_history |-> FALSE]
    /\ UNCHANGED <<eng_status, llm_interface, ctorVars, storeVars, bsVars, sources, engOther>>

\* stream_chat(query), iterated: the same steps as chat up to framework[:100],
\* which raises TypeError before the first chunk is yielded
EngineStreamChat(query) ==
    /\ eng_status = "constructed"
    /\ bs_pc = "idle"
    /\ Len(conversation_history) < MaxHistory
    /\ conversation_history' = Append(conversation_history, [role |-> "user", content |-> query])
    /\ \E out \in RetrieveOutcomes(query, DefaultTopK, TRUE, TRUE) :
           rag_op' = [NoRagOp EXCEPT !.name = "retrieve", !.text = query, !.top_k = DefaultTopK,
                                     !.calls = out.calls, !.ret_list = out.ret_list]
    /\ bs_pre' = NoSnapshot
    /\ rag_seen' = <<>>
    /\ eng_op' = [name |-> "stream_chat", seq |-> 1 - eng_op.seq, outcome |-> "TypeError",
                  had_records |-> FALSE, had_history |-> FALSE]
    /\ UNCHANGED <<eng_status, llm_interface, ctorVars, storeVars, bsVars, sources, engOther>>

\* reset(): the history is emptied, then a new RAGManager replaces the old one;
\* a constructor that raises leaves reset with RuntimeError
EngineReset(use_faiss_cfg, load_ok, retry_ok, fallback_ok, index_ok) ==
    LET result == RagCtorResult(load_ok, retry_ok, fallback_ok)
    IN  /\ eng_status = "constructed"
        /\ bs_pc = "idle"
        /\ conversation_history' = ClearedHistory(conversation_history)
        /\ IF result = "raised"
           THEN UNCHANGED <<ctorVars, storeVars, rag_op, sources, bs_pre, rag_seen>>
           ELSE /\ rag_status' = "constructed"
                /\ rag_error' = "none"
                /\ embedding_model' = result
                /\ loads' = RagCtorLoads(load_ok, retry_ok, fallback_ok)
                /\ use_faiss' = (use_faiss_cfg /\ index_ok)
                /\ texts' = <<>>
                /\ embeddings' = <<>>
                /\ index' = <<>>
                /\ rag_op' = NoRagOp
                /\ sources' = <<>>
                /\ bs_pre' = NoSnapshot
                /\ rag_seen' = <<>>
        /\ eng_op' = [name |-> "reset", seq |-> 1 - eng_op.seq,
                      outcome |-> IF result = "raised" THEN "RuntimeError" ELSE "returned",
                      had_records |-> embeddings # <<>>,
                      had_history |-> conversation_history # <<>>]
        /\ UNCHANGED <<eng_status, llm_interface, bsVars, engOther>>

\* the state after KimiEngine(...) has returned
InitEngine ==
    /\ scenario = "engine"
    /\ tp_status = "none"
    /\ batch_size = 0
    /\ overlap_size = 0
    /\ IdleSplit
    /\ IdleFit
    /\ IdleClassify
    /\ IdleMpr
    /\ rag_status = "constructed"
    /\ rag_error = "none"
    /\ embedding_model = "configured"
    /\ loads = RagCtorLoads(TRUE, TRUE, TRUE)
    /\ use_faiss \in BOOLEAN
    /\ EmptyStore
    /\ eng_status = "constructed"
    /\ conversation_history = <<>>
    /\ llm_interface = 1
    /\ eng_op = NoEngOp
    /\ IdleEntropy
    /\ IdleServer
    /\ IdleEvaluate
    /\ IdleContext

\* the engine's calls, and store_text on its rag_manager
NextEngine ==
    \/ \E text \in IngestTexts : EngineIngest(text)
    \/ \E query \in ChatQueries : EngineChat(query)
    \/ \E query \in ChatQueries : EngineStreamChat(query)
    \/ \E use_faiss_cfg, load_ok, retry_ok, fallback_ok, index_ok \in BOOLEAN :
           EngineReset(use_faiss_cfg, load_ok, retry_ok, fallback_ok, index_ok)
    \/ \E text \in RagTexts, generated \in LLMOutputs : StoreText(text, generated, TRUE, TRUE)

SpecEngine == InitEngine /\ [][NextEngine]_vars

(***************************************************************************)
(* EntropyEvaluator.calculate_word_entropy.  The entropy is a real number: *)
(* with N words and the frequencies f of the distinct words it is          *)
(* log2(N^N / prod f^f) / N.  The model keeps it exactly, as the record    *)
(* [num |-> N^N, den |-> prod f^f, total |-> N], and compares two          *)
(* entropies by cross-multiplying the powers.                              *)
(***************************************************************************)
EntropyAlphabet == {"r", "R", "u", " "}

\* text1 of test_calculate_entropy
LowEntropyText == <<"a", "a", "a", "a", "a", "a", "a", "a", "a", "a">>

\* text2 of test_calculate_entropy
HighEntropyText == <<"a", "b", "c", "d", "e", "f", "g", "h", "i", "j">>

\* the texts the calls are made on
EntropyTexts ==
    SeqsUpTo(EntropyAlphabet, MaxEntropyLen) \cup {LowEntropyText, HighEntropyText}

RECURSIVE Pow(_, _)
Pow(b, e) == IF e = 0 THEN 1 ELSE b * Pow(b, e - 1)

\* the product of freq^freq over the words of a Counter
RECURSIVE PowerProduct(_, _)
PowerProduct(word_freq, ws) ==
    IF ws = {} THEN 1
    ELSE LET w == CHOOSE x \in ws : TRUE
         IN  Pow(word_freq[w], word_freq[w]) * PowerProduct(word_freq, ws \ {w})

\* the float 0 the loop starts from, and returns when the text has no word
ZeroEntropy == [num |-> 1, den |-> 1, total |-> 1]

\* calculate_word_entropy(text)
WordEntropy(text) ==
    LET word_list == StrSplit(Lower(text))
        word_freq == [w \in Range(word_list) |-> Count(word_list, w)]
        total_words == Len(word_list)
    IN  IF total_words = 0 THEN ZeroEntropy
        ELSE [num |-> Pow(total_words, total_words),
              den |-> PowerProduct(word_freq, DOMAIN word_freq),
              total |-> total_words]

\* entropy1 < entropy2
EntropyLess(entropy1, entropy2) ==
    Pow(entropy1.num, entropy2.total) * Pow(entropy2.den, entropy1.total)
        < Pow(entropy2.num, entropy1.total) * Pow(entropy1.den, entropy2.total)

\* the next call of calculate_word_entropy returns
CalculateWordEntropy ==
    /\ ent_pc < Len(ent_texts)
    /\ ent_values' = Append(ent_values, WordEntropy(ent_texts[ent_pc + 1]))
    /\ ent_pc' = ent_pc + 1
    /\ UNCHANGED <<entOther, ent_texts>>

InitEntropy ==
    /\ scenario = "entropy"
    /\ tp_status = "none"
    /\ batch_size = 0
    /\ overlap_size = 0
    /\ IdleSplit
    /\ IdleFit
    /\ IdleClassify
    /\ IdleRag
    /\ IdleMpr
    /\ IdleEngine
    /\ ent_texts \in {<<text1, text2>> : text1 \in EntropyTexts, text2 \in EntropyTexts}
    /\ ent_pc = 0
    /\ ent_values = <<>>
    /\ IdleServer
    /\ IdleEvaluate
    /\ IdleContext

NextEntropy == CalculateWordEntropy

SpecEntropy == InitEntropy /\ [][NextEntropy]_vars

(***************************************************************************)
(* The API server (api/server.py) and its SessionManager                   *)
(* (api/session_manager.py).  An engine is kept as its conversation        *)
(* history and the records of its store; every history entry carries, in   *)
(* `by`, the session whose request appended it.  One request is one step:  *)
(* time.time() reads `now` throughout a request.                           *)
(***************************************************************************)
SessionIds == {"s1", "s2"}

\* how far the clock moves between two requests
TimeSteps == {200}

\* the timeout a POST /v1/sessions request carries (none: the default)
RequestTimeouts == {<<>>, <<0>>, <<100>>}

SystemContents == {<<" ">>, <<"a">>}

\* the messages of a chat completion request
RequestMessages ==
    {[role |-> "system", content |-> c] : c \in SystemContents}
        \cup {[role |-> "user", content |-> <<"a">>],
              [role |-> "assistant", content |-> <<"b">>]}

\* the message lists of a chat completion request
MessageLists == SeqsUpTo(RequestMessages, MaxMessages)

\* the message lists of a CoT request: one message at most
CotMessageLists == {messages \in MessageLists : Len(messages) <= 1}

\* cot_system_prompt, shortened: a text with words
CotSystemPrompt == <<"#", " ", "M">>

\* ingest_text of web_search, shortened: it holds words whatever the query is
WebSearchText(query) == <<"w", " ">> \o query

Without(f, keys) == [k \in DOMAIN f \ keys |-> f[k]]

With(f, key, value) == [k \in DOMAIN f \cup {key} |-> IF k = key THEN value ELSE f[k]]

\* the SessionManager's fields as one value
Manager ==
    [sessions |-> sessions, session_timeouts |-> session_timeouts,
     last_cleanup |-> last_cleanup]

\* `timeout or self.default_timeout`
TimeoutOrDefault(timeout) ==
    IF timeout = <<>> \/ timeout[1] = 0 THEN DefaultTimeout ELSE timeout[1]

\* delete_session(session_id)
DeleteSessionIn(m, session_id) ==
    IF session_id \in DOMAIN m.sessions
    THEN [m EXCEPT !.sessions = Without(@, {session_id}),
                   !.session_timeouts = Without(@, {session_id})]
    ELSE m

RECURSIVE DeleteAllIn(_, _)
DeleteAllIn(m, expired_sessions) ==
    IF expired_sessions = {} THEN m
    ELSE LET session_id == CHOOSE x \in expired_sessions : TRUE
         IN  DeleteAllIn(DeleteSessionIn(m, session_id), expired_sessions \ {session_id})

\* _cleanup_expired_sessions() at time current_time
CleanupExpiredSessions(m, current_time) ==
    IF current_time - m.last_cleanup < CleanupInterval THEN m
    ELSE LET expired_sessions ==
                 {session_id \in DOMAIN m.session_timeouts :
                      current_time > m.session_timeouts[session_id]}
         IN  DeleteAllIn([m EXCEPT !.last_cleanup = current_time], expired_sessions)

\* get_session(session_id): the manager afterwards, and whether an engine
\* (rather than None) is returned
GetSessionIn(m, session_id, current_time) ==
    LET cleaned == CleanupExpiredSessions(m, current_time)
    IN  IF session_id \notin DOMAIN cleaned.sessions
        THEN [m |-> cleaned, found |-> FALSE]
        ELSE [m |-> [cleaned EXCEPT !.session_timeouts =
                         With(@, session_id, current_time + DefaultTimeout)],
              found |-> TRUE]

\* create_session(session_id, timeout) with a session id given
CreateSessionIn(m, session_id, timeout, current_time) ==
    IF session_id \in DOMAIN m.sessions
    THEN [m EXCEPT !.session_timeouts =
              With(@, session_id, current_time + TimeoutOrDefault(timeout))]
    ELSE [m EXCEPT !.sessions = With(@, session_id, [engine |-> NewEngine]),
                   !.session_timeouts =
                       With(@, session_id, current_time + TimeoutOrDefault(timeout))]

\* whether the session's expiry time has passed
Expired(m, session_id, current_time) ==
    /\ session_id \in DOMAIN m.session_timeouts
    /\ current_time > m.session_timeouts[session_id]

\* engine.ingest(text): a text that comes back adds one system entry of the
\* useful chunks (none: the text holds no word); the store gets nothing
IngestIn(eng, text, by) ==
    [engine |-> IF IngestOutcome(text) = "returned"
                THEN [eng EXCEPT !.history =
                          Append(@, [role |-> "system", content |-> <<>>, by |-> by])]
                ELSE eng,
     outcome |-> IngestOutcome(text)]

\* engine.chat(query): the user entry is appended, then chat raises
ChatIn(eng, query, by) ==
    [engine |-> [eng EXCEPT !.history =
                     Append(@, [role |-> "user", content |-> query, by |-> by])],
     outcome |-> "TypeError"]

\* engine.reset()
ResetIn(eng) == [eng EXCEPT !.history = ClearedHistory(@), !.records = <<>>]

\* `for message in request.messages`: system messages are ingested,
\* assistant messages appended, the last user message remembered
RECURSIVE HandleMessages(_, _, _, _)
HandleMessages(eng, messages, by, last_user_message) ==
    IF messages = <<>>
    THEN [engine |-> eng, outcome |-> "returned", last_user_message |-> last_user_message]
    ELSE LET message == Head(messages)
         IN  CASE message.role = "system" ->
                      LET ingested == IngestIn(eng, message.content, by)
                      IN  IF ingested.outcome = "returned"
                          THEN HandleMessages(ingested.engine, Tail(messages), by,
                                              last_user_message)
                          ELSE [engine |-> ingested.engine, outcome |-> ingested.outcome,
                                last_user_message |-> last_user_message]
                [] message.role = "user" ->
                      HandleMessages(eng, Tail(messages), by, <<message.content>>)
                [] OTHER ->
                      HandleMessages([eng EXCEPT !.history =
                                          Append(@, [role |-> "assistant",
                                                     content |-> message.content,
                                                     by |-> by])],
                                     Tail(messages), by, last_user_message)

\* the messages are handled, then engine.chat runs on the last user message
HandleChat(eng, messages, by) ==
    LET handled == HandleMessages(eng, messages, by, <<>>)
    IN  IF handled.outcome # "returned"
        THEN [engine |-> handled.engine, outcome |-> handled.outcome]
        ELSE IF handled.last_user_message = <<>>
        THEN [engine |-> handled.engine, outcome |-> "400"]
        ELSE ChatIn(handled.engine, handled.last_user_message[1], by)

\* the entries of a history that requests of the session appended
EntriesBy(history, session_id) == SelectSeq(history, LAMBDA entry : entry.by = session_id)

\* the clock moves on
Tick(step) ==
    /\ now + step <= MaxTime
    /\ now' = now + step
    /\ UNCHANGED <<sessions, session_timeouts, last_cleanup, engine, srv_op, srvOther>>

\* POST /v1/sessions: create_session(timeout=timeout) under a fresh id
SessionsCreate(session_id, timeout) ==
    /\ session_id \notin DOMAIN sessions
    /\ LET m == CreateSessionIn(Manager, session_id, timeout, now)
       IN  /\ sessions' = m.sessions
           /\ session_timeouts' = m.session_timeouts
    /\ srv_op' = [NoSrvOp EXCEPT !.name = "create_session", !.session = session_id,
                                 !.outcome = "returned"]
    /\ UNCHANGED <<now, last_cleanup, engine, srvOther>>

\* DELETE /v1/sessions/{session_id}
SessionsDelete(session_id) ==
    /\ LET m == DeleteSessionIn(Manager, session_id)
       IN  /\ sessions' = m.sessions
           /\ session_timeouts' = m.session_timeouts
    /\ srv_op' = [NoSrvOp EXCEPT !.name = "delete_session", !.session = session_id,
                                 !.outcome = IF session_id \in DOMAIN sessions
                                             THEN "returned" ELSE "404"]
    /\ UNCHANGED <<now, last_cleanup, engine, srvOther>>

\* SessionManager.get_session(session_id)
GetSession(session_id) ==
    /\ LET got == GetSessionIn(Manager, session_id, now)
       IN  /\ sessions' = got.m.sessions
           /\ session_timeouts' = got.m.session_timeouts
           /\ last_cleanup' = got.m.last_cleanup
           /\ srv_op' = [NoSrvOp EXCEPT !.name = "get_session", !.session = session_id,
                                        !.found = got.found,
                                        !.expired = Expired(Manager, session_id, now),
                                        !.outcome = "returned"]
    /\ UNCHANGED <<now, engine, srvOther>>

\* POST /v1/chat/completions with a session id: the session's engine is
\* looked up, or made, and the messages run on it
ChatCompletion(session_id, messages) ==
    LET got == GetSessionIn(Manager, session_id, now)
        m == IF got.found THEN got.m
             ELSE GetSessionIn(CreateSessionIn(got.m, session_id, <<>>, now),
                               session_id, now).m
        done == HandleChat(m.sessions[session_id].engine, messages, session_id)
    IN  /\ Len(done.engine.history) <= MaxHistory
        /\ sessions' = With(m.sessions, session_id, [engine |-> done.engine])
        /\ session_timeouts' = m.session_timeouts
        /\ last_cleanup' = m.last_cleanup
        /\ srv_op' = [name |-> "chat", session |-> session_id, found |-> got.found,
                      expired |-> Expired(Manager, session_id, now),
                      outcome |-> done.outcome]
        /\ UNCHANGED <<now, engine, srvOther>>

\* POST /v1/chat/completions/cot, sent by a client of the session: the global
\* engine is reset, the CoT prompt ingested, then the messages run on it
CotChatCompletion(session_id, messages) ==
    LET ingested == IngestIn(ResetIn(engine), CotSystemPrompt, session_id)
        done == IF ingested.outcome = "returned"
                THEN HandleChat(ingested.engine, messages, session_id)
                ELSE ingested
    IN  /\ Len(done.engine.history) <= MaxHistory
        /\ engine' = done.engine
        /\ srv_op' = [NoSrvOp EXCEPT !.name = "cot", !.session = session_id,
                                     !.outcome = done.outcome]
        /\ UNCHANGED <<now, sessions, session_timeouts, last_cleanup, srvOther>>

\* POST /v1/files/ingest of a .txt file, sent by a client of the session:
\* process_txt ingests the content, when there is any, into the global engine
FileIngest(session_id, text_content) ==
    LET done == IF text_content # <<>>
                THEN IngestIn(engine, text_content, session_id)
                ELSE [engine |-> engine, outcome |-> "empty"]
    IN  /\ Len(done.engine.history) <= MaxHistory
        /\ engine' = done.engine
        /\ srv_op' = [NoSrvOp EXCEPT !.name = "file_ingest", !.session = session_id,
                                     !.outcome = done.outcome]
        /\ UNCHANGED <<now, sessions, session_timeouts, last_cleanup, srvOther>>

\* POST /v1/web_search, sent by a client of the session: the results are
\* ingested into the global engine
WebSearch(session_id, query) ==
    LET done == IF query = <<>>
                THEN [engine |-> engine, outcome |-> "400"]
                ELSE IngestIn(engine, WebSearchText(query), session_id)
    IN  /\ Len(done.engine.history) <= MaxHistory
        /\ engine' = done.engine
        /\ srv_op' = [NoSrvOp EXCEPT !.name = "web_search", !.session = session_id,
                                     !.outcome = done.outcome]
        /\ UNCHANGED <<now, sessions, session_timeouts, last_cleanup, srvOther>>

InitServer ==
    /\ scenario = "server"
    /\ tp_status = "none"
    /\ batch_size = 0
    /\ overlap_size = 0
    /\ IdleSplit
    /\ IdleFit
    /\ IdleClassify
    /\ IdleRag
    /\ IdleMpr
    /\ IdleEngine
    /\ IdleEntropy
    /\ now = 0
    /\ sessions = <<>>
    /\ session_timeouts = <<>>
    /\ last_cleanup = 0
    /\ engine = NewEngine
    /\ srv_op = NoSrvOp
    /\ IdleEvaluate
    /\ IdleContext

\* the requests of the API, sent at one time
NextServer ==
    \/ \E session_id \in SessionIds : SessionsDelete(session_id)
    \/ \E session_id \in SessionIds, messages \in MessageLists :
           ChatCompletion(session_id, messages)
    \/ \E session_id \in SessionIds, messages \in CotMessageLists :
           CotChatCompletion(session_id, messages)
    \/ \E session_id \in SessionIds, text_content \in IngestTexts :
           FileIngest(session_id, text_content)
    \/ \E session_id \in SessionIds, query \in {<<>>, <<"a">>} : WebSearch(session_id, query)

SpecServer == InitServer /\ [][NextServer]_vars

\* the SessionManager alone, as time passes
InitSessions ==
    /\ scenario = "sessions"
    /\ tp_status = "none"
    /\ batch_size = 0
    /\ overlap_size = 0
    /\ IdleSplit
    /\ IdleFit
    /\ IdleClassify
    /\ IdleRag
    /\ IdleMpr
    /\ IdleEngine
    /\ IdleEntropy
    /\ now = 0
    /\ sessions = <<>>
    /\ session_timeouts = <<>>
    /\ last_cleanup = 0
    /\ engine = NewEngine
    /\ srv_op = NoSrvOp
    /\ IdleEvaluate
    /\ IdleContext

NextSessions ==
    \/ \E step \in TimeSteps : Tick(step)
    \/ \E session_id \in SessionIds, timeout \in RequestTimeouts :
           SessionsCreate(session_id, timeout)
    \/ \E session_id \in SessionIds : SessionsDelete(session_id)
    \/ \E session_id \in SessionIds : GetSession(session_id)

SpecSessions == InitSessions /\ [][NextSessions]_vars

(***************************************************************************)
(* EntropyEvaluator.evaluate_text.  The four entropies are real numbers    *)
(* measured on the text; the model draws them as small integers.  Weights  *)
(* are kept in tenths, so the weighted entropy is in tenths too.           *)
(***************************************************************************)
WeightKeys == {"word", "ngram", "semantic", "structural"}

\* default_weights, in tenths
DefaultWeights == [word |-> 3, ngram |-> 2, semantic |-> 3, structural |-> 2]

\* the weights a caller gives, in tenths
WeightValues == {1, 5}

\* the weights arguments: a map over any subset of the keys.  The map over
\* no key stands for {} and for None alike: both are falsy
WeightMaps == UNION {[keys -> WeightValues] : keys \in SUBSET WeightKeys}

MeasuredEntropies ==
    [word : {0, 1}, ngram : {0, 1}, semantic : {0, 1}, structural : {0, 1}]

\* `weights = weights or default_weights`
WeightsOrDefault(weights) == IF DOMAIN weights = {} THEN DefaultWeights ELSE weights

\* evaluate_text: the weighted entropy, or the KeyError of the first
\* weights[...] lookup of a key the map does not hold
EvaluateText(entropies, weights_arg) ==
    LET weights == WeightsOrDefault(weights_arg)
    IN  IF WeightKeys \subseteq DOMAIN weights
        THEN [error |-> "none",
              weighted_entropy |-> weights["word"] * entropies.word
                                   + weights["ngram"] * entropies.ngram
                                   + weights["semantic"] * entropies.semantic
                                   + weights["structural"] * entropies.structural]
        ELSE [error |-> "KeyError", weighted_entropy |-> 0]

\* the call returns or raises
EvaluateTextCall ==
    /\ ev_pc = "called"
    /\ ev_result' = EvaluateText(ev_entropies, ev_weights)
    /\ ev_pc' = IF EvaluateText(ev_entropies, ev_weights).error = "none"
                THEN "returned" ELSE "raised"
    /\ UNCHANGED <<ev_entropies, ev_weights, evOther>>

InitEvaluate ==
    /\ scenario = "evaluate"
    /\ tp_status = "none"
    /\ batch_size = 0
    /\ overlap_size = 0
    /\ IdleSplit
    /\ IdleFit
    /\ IdleClassify
    /\ IdleRag
    /\ IdleMpr
    /\ IdleEngine
    /\ IdleEntropy
    /\ IdleServer
    /\ ev_pc = "called"
    /\ ev_entropies \in MeasuredEntropies
    /\ ev_weights \in WeightMaps
    /\ ev_result = <<>>
    /\ IdleContext

NextEvaluate == EvaluateTextCall

SpecEvaluate == InitEvaluate /\ [][NextEvaluate]_vars

(***************************************************************************)
(* KimiEngine._get_recent_context (engine.py).                             *)
(***************************************************************************)
\* the roles chat and stream_chat append to the history
ContextRoles == {"user", "assistant"}

\* the characters of a role's name
RoleText(role) ==
    IF role = "user" THEN <<"u", "s", "e", "r">>
    ELSE <<"a", "s", "s", "i", "s", "t", "a", "n", "t">>

ContextContents == SeqsUpTo({"a"}, MaxContentLen)

ContextMessages == [role : ContextRoles, content : ContextContents]

\* f"{message['role']}: {message['content']}"
MsgText(message) == RoleText(message.role) \o <<":", " ">> \o message.content

\* list(reversed(s))
Reversed(s) == [i \in 1..Len(s) |-> s[Len(s) + 1 - i]]

\* the for loop over reversed(self.conversation_history): `rest` is the part of
\* the history not yet visited, its last message is visited next
RECURSIVE RecentMessages(_, _, _, _)
RecentMessages(rest, recent_messages_text, current_tokens, limit) ==
    IF rest = <<>> THEN recent_messages_text
    ELSE LET msg_text == MsgText(rest[Len(rest)])
             msg_tokens == CountTokens(msg_text)
         IN  IF current_tokens + msg_tokens > limit
             THEN IF recent_messages_text = <<>>
                  THEN <<Decode(Encode(msg_text, limit, TRUE))>>
                  ELSE recent_messages_text
             ELSE RecentMessages(SubSeq(rest, 1, Len(rest) - 1),
                                 Append(recent_messages_text, msg_text),
                                 current_tokens + msg_tokens, limit)

GetRecentContext(history, limit) ==
    Join(Reversed(RecentMessages(history, <<>>, 0, limit)), <<"\n", "\n">>)

\* the call returns
GetRecentContextCall ==
    /\ ctx_pc = "called"
    /\ final_context' = GetRecentContext(ctx_history, max_tokens)
    /\ ctx_pc' = "returned"
    /\ UNCHANGED <<ctx_history, max_tokens, ctxOther>>

InitContext ==
    /\ scenario = "context"
    /\ tp_status = "none"
    /\ batch_size = 0
    /\ overlap_size = 0
    /\ IdleSplit
    /\ IdleFit
    /\ IdleClassify
    /\ IdleRag
    /\ IdleMpr
    /\ IdleEngine
    /\ IdleEntropy
    /\ IdleServer
    /\ IdleEvaluate
    /\ ctx_pc = "called"
    /\ ctx_history \in SeqsUpTo(ContextMessages, MaxContextHistory)
    /\ max_tokens \in 0..MaxContextTokens
    /\ final_context = <<>>

NextContext == GetRecentContextCall

SpecContext == InitContext /\ [][NextContext]_vars

(***************************************************************************)
(* Claims.                                                                 *)
(***************************************************************************)

\* C1: every call of _recursive_rag_compress(text, target_token_limit) ends
\* by returning a string whose token count is at most target_token_limit.
\* A call that ends by raising, or returns a longer string, violates it.
C1_FitWithinBudget ==
    fit_pc \in {"returned", "raised"} =>
        /\ fit_pc = "returned"
        /\ CountTokens(fit_result) <= target_token_limit

\* C2: a call of _recursive_rag_compress terminates: while a round is
\* splitting, every iteration of the split loop leaves strictly fewer words
\* ahead of the window, so the round comes to its end.  The loop body is a
\* function of start_idx alone, so an iteration that does not advance
\* start_idx is repeated for ever.
C2_FitRoundAdvances ==
    [][(fit_pc = "split" /\ fit_pc' = "split" /\ Len(batches') = Len(batches) + 1)
          => Len(words) - start_idx' < Len(words) - start_idx]_vars

\* C3: in split_into_batches(by_sentence=True) the window start strictly
\* increases from each chunk to the next until the input is exhausted:
\* after every iteration start_idx is larger than before or the loop is over.
C3_WindowStartAdvances ==
    [][(scenario = "split" /\ split_pc = "while" /\ Len(batches') = Len(batches) + 1)
          => (start_idx' > start_idx \/ start_idx' >= Len(words))]_vars

\* C4: after store_text(t) on an empty store, retrieve(q) with a query q
\* similar to t (here q = t) returns a list that contains the source text t
\* of the record, not its summary.
C4_RoundTripReturnsSource ==
    (rag_op.name = "retrieve" /\ Len(sources) = 1 /\ rag_op.text = sources[1])
        => sources[1] \in Range(rag_op.ret_list)

\* C5: retrieve(query, top_k) returns at most min(top_k, number of stored
\* records) results, one record being one entry of self.embeddings.
C5_RetrieveAtMostRecords ==
    rag_op.name = "retrieve"
        => Len(rag_op.ret_list) <= Min(rag_op.top_k, Len(embeddings))

\* C6: a retrieve that ran while a batch_store was running met either the
\* store as it was when the batch_store was entered or the store as it is
\* when the batch_store returns.
C6_BatchStoreAtomic ==
    (rag_op.name = "batch_store" /\ rag_op.failed = "none" /\ bs_pc = "idle" /\ rag_seen # <<>>)
        => rag_seen[1].store \in {bs_pre, Snapshot}

\* C7: a store_text call whose summary is already in self.texts returns that
\* summary and leaves self.texts, self.embeddings and the index as they were.
C7_DuplicateStoreInsertsNothing ==
    [][(rag_op'.name = "store_text" /\ rag_op'.summary \in Range(texts))
        => (/\ rag_op'.ret_key = rag_op'.summary
            /\ texts' = texts
            /\ embeddings' = embeddings
            /\ index' = index)]_vars

\* C7 witness: a store_text of another text than the stored record's came
\* back as a duplicate of that record.
C7_Witness ==
    /\ rag_op.name = "store_text"
    /\ ~rag_op.inserted
    /\ rag_op.calls = <<>>
    /\ Len(sources) = 1
    /\ rag_op.text # sources[1]
    /\ rag_op.summary \in Range(texts)

\* C8: classify_by_entropy(batches, threshold) returns (kept, compressible):
\* kept is the subsequence of batches whose selected entropy is >= the
\* threshold, compressible the subsequence whose entropy is < the threshold,
\* both in the original order, so the two lengths add up to len(batches).
C8_Score(chunk) ==
    LET r == entropy_of[chunk] IN
    IF entropy_method = "word" THEN r.word_entropy
    ELSE IF entropy_method = "ngram" THEN r.ngram_entropy
    ELSE IF entropy_method = "semantic" THEN r.semantic_entropy
    ELSE IF entropy_method = "structural" THEN r.structural_entropy
    ELSE r.weighted_entropy

C8_Threshold == IF Len(cl_threshold) = 0 THEN entropy_threshold ELSE cl_threshold[1]

C8_ClassifyPartitions ==
    cl_pc = "returned" =>
        LET AtLeast(chunk) == C8_Score(chunk) >= C8_Threshold
            Below(chunk) == C8_Score(chunk) < C8_Threshold
        IN  /\ useful_batches = SelectSeq(cl_batches, AtLeast)
            /\ less_useful_batches = SelectSeq(cl_batches, Below)
            /\ Len(useful_batches) + Len(less_useful_batches) = Len(cl_batches)

\* a call that put chunks in both lists, with a chunk exactly on the threshold
C8_Witness ==
    /\ cl_pc = "returned"
    /\ useful_batches # <<>>
    /\ less_useful_batches # <<>>
    /\ Len(cl_batches) = 3
    /\ \E i \in 1..Len(cl_batches) : C8_Score(cl_batches[i]) = C8_Threshold

\* C9: when the generate call for one candidate raises after at least one
\* other candidate was produced, generate_solution_mpr still returns, and
\* what it returns is the selected synthesis of the candidates produced.
C9_FailedCandidateDegrades ==
    (mpr_error = "generate" /\ candidates # <<>>)
        => /\ mpr_pc = "returned"
           /\ final_solution \in
                  (IF mpr_args.synthesis_strategy = "majority"
                   THEN MajorityVote(candidates)
                   ELSE HierarchicalSynthesis(candidates))

\* C10: a TextProcessor with overlap_size >= batch_size is rejected by the
\* constructor: no constructed TextProcessor has overlap_size >= batch_size.
C10_OverlapBelowBatch ==
    tp_status = "constructed" => overlap_size < batch_size

\* C11: when a load of the configured embedding model fails during the
\* construction of a RAGManager, exactly one load of the fallback model is
\* attempted, and the construction succeeds if that load succeeds and raises
\* only if it fails.
C11_FallbackModelTried ==
    LET failed == \E i \in 1..Len(loads) : loads[i].model = "configured" /\ ~loads[i].ok
        fallbacks == {i \in 1..Len(loads) : loads[i].model = "fallback"}
    IN  (rag_status \in {"constructed", "raised"} /\ failed)
            => /\ Cardinality(fallbacks) = 1
               /\ \A i \in fallbacks : (rag_status = "constructed") <=> loads[i].ok

\* C12: when the encode call or the index call made inside store_text or
\* retrieve raises, the call still returns normally: store_text returns its
\* key, retrieve returns the results of the brute-force path.
C12_FaultsDegrade ==
    (rag_op.name \in {"store_text", "retrieve"} /\ rag_op.failed # "none")
        => /\ rag_op.error = "none"
           /\ rag_op.name = "store_text" => rag_op.ret_key = rag_op.summary
           /\ rag_op.name = "retrieve"
                  => rag_op.ret_list \in SklearnResults(Embed(rag_op.text), rag_op.top_k)

\* C13: between calls, every stored summary occupies exactly one position of
\* self.texts, self.texts, self.embeddings and the index have the same
\* length, and position i of the embeddings and of the index holds the
\* embedding of the summary at position i.
C13_RecordsAligned ==
    (rag_status = "constructed" /\ bs_pc = "idle")
        => /\ \A i, j \in 1..Len(texts) : i # j => texts[i] # texts[j]
           /\ Len(embeddings) = Len(texts)
           /\ \A i \in 1..Len(embeddings) : embeddings[i] = Embed(PyIndex(texts, i - 1))
           /\ use_faiss => /\ Len(index) = Len(texts)
                            /\ \A i \in 1..Len(index) : index[i] = Embed(PyIndex(texts, i - 1))

\* C14: a batch_store call that returns gives back one summary per input
\* text, and has inserted one record per summary that was not stored before
\* the call, however often that summary occurs among the inputs.
C14_BatchStoreKeys ==
    [][(bs_pc = "loop" /\ bs_pc' = "idle" /\ rag_op'.error = "none")
        => LET keys == rag_op'.ret_list
               fresh == Range(keys) \ Range(bs_pre.texts)
           IN  /\ Len(keys) = Len(bs_texts)
               /\ Range(texts') = Range(bs_pre.texts) \cup Range(keys)
               /\ Len(texts') = Len(bs_pre.texts) + Cardinality(fresh)
               /\ Len(embeddings') = Len(bs_pre.embeddings) + Cardinality(fresh)]_vars

\* C15: every summary that retrieve returns has a similarity to the query,
\* 1 / (1 + distance) with the index's squared L2 distance, of at least
\* similarity_threshold.
C15_Distance(query, summary) == L2(Embed(query), Embed(summary))

C15_ResultsAboveThreshold ==
    (rag_op.name = "retrieve" /\ rag_op.error = "none")
        => \A i \in 1..Len(rag_op.ret_list) :
               SimilarityThresholdDen
                   >= SimilarityThresholdNum * (1 + C15_Distance(rag_op.text, rag_op.ret_list[i]))

\* C16: a reset() that returns leaves the store without texts, embeddings and
\* index entries, so that retrieve returns [] for every query, leaves the
\* conversation history empty and leaves the engine's language model the
\* same instance.
C16_ResetClears ==
    [][(eng_op' # eng_op /\ eng_op'.name = "reset" /\ eng_op'.outcome = "returned")
        => /\ texts' = <<>>
           /\ embeddings' = <<>>
           /\ index' = <<>>
           /\ conversation_history' = <<>>
           /\ llm_interface' = llm_interface
           /\ \A query \in Queries, top_k \in 1..MaxTopK :
                  \A out \in RetrieveOutcomes(query, top_k, TRUE, TRUE)' :
                      out.ret_list = <<>>]_vars

\* C16 witness: a reset has returned on an engine that had stored records and
\* a history.
C16_Witness ==
    /\ eng_op.name = "reset"
    /\ eng_op.outcome = "returned"
    /\ eng_op.had_records
    /\ eng_op.had_history
    /\ texts = <<>>
    /\ conversation_history = <<>>

\* C17: _majority_vote over three identical copies of a text returns that
\* text unchanged.
C17_MajorityOfCopies ==
    (scenario = "majority" /\ mpr_pc = "returned" /\ Len(candidates) = 3
         /\ candidates[1] = candidates[2] /\ candidates[2] = candidates[3])
        => final_solution = candidates[1]

\* C18: when the pool (useful_context plus rag_context) has at most
\* num_candidates items, diversity sampling returns every item of the pool
\* exactly once.
C18_Pool == <<mpr_args.useful_context>> \o mpr_args.rag_context

C18_DiversityTakesAll ==
    (scenario = "mpr" /\ mpr_args.context_strategy = "diversity"
         /\ Len(C18_Pool) <= mpr_args.num_candidates)
        => /\ mpr_error # "ZeroDivisionError"
           /\ Len(sampled_contexts) = Len(C18_Pool)
           /\ \A x \in Range(C18_Pool) : Count(sampled_contexts, x) = Count(C18_Pool, x)

\* C19: the word entropy of "aaaaaaaaaa" is strictly less than the word
\* entropy of "abcdefghij".
C19_RepeatedBelowDiverse ==
    (scenario = "entropy" /\ ent_pc = 2
         /\ ent_texts = <<LowEntropyText, HighEntropyText>>)
        => EntropyLess(ent_values[1], ent_values[2])

\* C20: retrieve(query, top_k) on a store that holds no record (no entry of
\* self.embeddings) returns the empty list, raises nothing and calls neither
\* the embedding model nor the index.
C20_EmptyStoreRetrieve ==
    (rag_op.name = "retrieve" /\ embeddings = <<>>)
        => (/\ rag_op.ret_list = <<>>
            /\ rag_op.error = "none"
            /\ rag_op.failed = "none"
            /\ rag_op.calls = <<>>)

\* C20 witness: retrieve with a positive top_k returned from a store whose
\* texts and embeddings are both empty.
C20_Witness ==
    /\ rag_op.name = "retrieve"
    /\ rag_op.top_k > 0
    /\ texts = <<>>
    /\ embeddings = <<>>
    /\ rag_op.ret_list = <<>>

\* C21: a call of _recursive_rag_compress on a text of at most
\* target_token_limit tokens returns the text as it is, and has neither
\* constructed a RAGManager nor split, classified or stored anything;
\* and a call on what the last call returned, with the same limit, returns
\* it as it is.
C21_ShortTextReturned ==
    [][/\ (fit_pc \in {"idle", "returned", "raised"}
            /\ CountTokens(fit_text') <= target_token_limit')
           => (/\ fit_pc' = "returned"
               /\ fit_result' = fit_text'
               /\ fit_trace' = <<>>
               /\ UNCHANGED splitVars)
       /\ (fit_pc = "returned" /\ fit_text' = fit_result
            /\ target_token_limit' = target_token_limit)
           => (fit_pc' = "returned" /\ fit_result' = fit_result /\ fit_trace' = <<>>)]_vars

\* C21 witness: a call on a text with tokens, of exactly the limit, returned it.
C21_Witness ==
    /\ scenario = "fit"
    /\ fit_pc = "returned"
    /\ fit_text # <<>>
    /\ CountTokens(fit_text) = target_token_limit
    /\ target_token_limit > 0
    /\ fit_result = fit_text
    /\ fit_trace = <<>>

C30_ExpiredNotReturned ==
    (srv_op.name = "get_session" /\ srv_op.expired) => ~srv_op.found

\* C23: generate_solution_mpr never returns a text when the candidate list
\* handed to the synthesis strategy is empty: it ends with an error, whatever
\* the strategy.
C23_EmptyCandidatesFail ==
    (scenario = "mpr" /\ mpr_pc \in {"returned", "raised"}
         /\ sampled_contexts = <<>> /\ candidates = <<>> /\ mpr_error # "ZeroDivisionError")
        => mpr_pc = "raised"

\* the weight evaluate_text is to use for a key: the given one, else the default
C24_Weight(key) ==
    IF key \in DOMAIN ev_weights THEN ev_weights[key] ELSE DefaultWeights[key]

\* C24: evaluate_text with a weights map over any subset of the four keys
\* returns the weighted sum in which every weight that is not given takes
\* its default; it does not fail on a partial map.
C24_PartialWeights ==
    (scenario = "evaluate" /\ ev_pc # "called")
        => (/\ ev_pc = "returned"
            /\ ev_result.weighted_entropy =
                   C24_Weight("word") * ev_entropies.word
                   + C24_Weight("ngram") * ev_entropies.ngram
                   + C24_Weight("semantic") * ev_entropies.semantic
                   + C24_Weight("structural") * ev_entropies.structural)

\* the most frequent paragraph of a list, the first one in list order when
\* several are tied
C25_FirstMode(lst) ==
    lst[CHOOSE i \in 1..Len(lst) :
            /\ lst[i] \in Modes(lst)
            /\ \A j \in 1..(i - 1) : lst[j] \notin Modes(lst)]

\* the paragraphs the claim has chosen from position i on
RECURSIVE C25_Chosen(_, _, _)
C25_Chosen(paragraphs, i, n) ==
    IF i > n THEN <<>>
    ELSE LET non_empty == NonBlank(Column(paragraphs, i))
         IN  (IF non_empty # <<>> THEN <<C25_FirstMode(non_empty)>> ELSE <<>>)
                 \o C25_Chosen(paragraphs, i + 1, n)

\* C25: _majority_vote returns, at every paragraph position, the most
\* frequent non-blank paragraph, and among tied paragraphs the one that comes
\* first in candidate order: the result is a function of the candidate list.
C25_TieFirstOccurrence ==
    (scenario = "majority" /\ mpr_pc = "returned")
        => LET paragraphs == [c \in 1..Len(candidates) |->
                                  SplitSep(candidates[c], ParagraphSep)]
               max_paragraphs == SetMax({Len(paragraphs[c]) : c \in 1..Len(candidates)})
           IN  final_solution = Join(C25_Chosen(paragraphs, 1, max_paragraphs), ParagraphSep)

\* C26: a compression round that has split, classified and stored its chunks
\* forms its candidate, the kept chunks in their order followed by the
\* summary keys of the stored chunks; reading the keys does not end the round
\* with an error.
C26_RoundFormsCandidate ==
    (scenario = "fit" /\ "batch_store" \in Range(fit_trace)) => fit_error = "none"

\* the ways the returned chunks can be laid on the words: a start and a
\* length of at most batch_size for every chunk, the starts not decreasing
C27_Layouts ==
    {lay \in [1..Len(batches) -> (0..Len(words)) \X (0..batch_size)] :
         /\ \A k \in 1..Len(batches) :
                batches[k] = Join(Slice(words, lay[k][1], lay[k][1] + lay[k][2]), <<" ">>)
         /\ \A k \in 1..(Len(batches) - 1) : lay[k][1] <= lay[k + 1][1]}

\* C27: the chunks split_into_batches returns are contiguous runs of at most
\* batch_size words of the input, their starts do not decrease, and every
\* word of the input lies in at least one chunk.
C27_ChunksCoverInput ==
    (scenario = "split" /\ split_pc = "returned")
        => \E lay \in C27_Layouts :
               \A i \in 0..(Len(words) - 1) :
                   \E k \in 1..Len(batches) :
                       lay[k][1] <= i /\ i < lay[k][1] + lay[k][2]

\* C28: _get_recent_context(max_tokens) returns, in chronological order, exactly
\* the longest suffix of the history whose per-message token counts sum to at
\* most max_tokens; only when the most recent message alone exceeds max_tokens
\* does it return that one message cut to max_tokens tokens.
\* token counts of the last k messages of the history, summed
RECURSIVE C28_SuffixTokens(_, _)
C28_SuffixTokens(history, k) ==
    IF k = 0 THEN 0
    ELSE CountTokens(MsgText(history[Len(history) + 1 - k])) + C28_SuffixTokens(history, k - 1)

\* the texts of the last k messages, oldest first
C28_Suffix(history, k) == [i \in 1..k |-> MsgText(history[Len(history) - k + i])]

C29_ChatAppendsPairOrNothing ==
    [][(eng_op' # eng_op /\ eng_op'.name = "chat")
          => IF eng_op'.outcome = "returned"
             THEN /\ Len(conversation_history') = Len(conversation_history) + 2
                  /\ SubSeq(conversation_history', 1, Len(conversation_history))
                         = conversation_history
                  /\ conversation_history'[Len(conversation_history) + 1].role = "user"
                  /\ conversation_history'[Len(conversation_history) + 2].role = "assistant"
             ELSE conversation_history' = conversation_history]_vars

(***************************************************************************)
(* The whole model: one component is exercised per behaviour.              *)
(***************************************************************************)
Init ==
    InitSplit \/ InitFit \/ InitClassify \/ InitRag \/ InitRagFault \/ InitMpr \/ InitMajority
        \/ InitEngine \/ InitEntropy \/ InitServer \/ InitSessions \/ InitEvaluate
        \/ InitContext

Next ==
    \/ scenario = "split" /\ NextSplit
    \/ scenario = "fit" /\ NextFit
    \/ scenario = "classify" /\ NextClassify
    \/ scenario = "rag" /\ NextRag
    \/ scenario = "ragfault" /\ NextRagFault
    \/ scenario = "mpr" /\ NextMpr
    \/ scenario = "majority" /\ NextMajority
    \/ scenario = "engine" /\ NextEngine
    \/ scenario = "entropy" /\ NextEntropy
    \/ scenario = "server" /\ NextServer
    \/ scenario = "sessions" /\ NextSessions
    \/ scenario = "evaluate" /\ NextEvaluate
    \/ scenario = "context" /\ NextContext

Spec == Init /\ [][Next]_vars

====
